---------------------------- MODULE Spec2Model ----------------------------
(***************************************************************************)
(* A state-machine model of the real-time core of server.js: the session   *)
(* bridge (io.use), the connection counters, and the four in-memory game   *)
(* engines (chess, ludo, tic-tac-toe, uno) with the disconnect handler and *)
(* the periodic cleanup.                                                   *)
(*                                                                         *)
(* Text is modelled as sequences of one-character strings, so that the     *)
(* cookie parser is computed rather than assumed.  Math.random and         *)
(* Date.now are inputs: dice and shuffles are drawn from named sets, the   *)
(* clock is the variable now.                                              *)
(***************************************************************************)
EXTENDS Integers, Sequences, FiniteSets, TLC

VARIABLES
    sessionStore,             \* MemoryStore: session id -> session record
    handshake,                \* outcome of the last io.use run
    activeConnections,        \* let activeConnections
    homepageConnections,      \* let homepageConnections
    authenticatedConnections, \* let authenticatedConnections
    conns,                    \* live sockets: handshake class -> how many
    now,                      \* Date.now()
    chessGames,               \* Map gameId -> chess game
    ludoGames,                \* Map gameId -> ludo game
    ticTacToeGames,           \* Map gameId -> tic-tac-toe game
    unoGames,                 \* Map gameId -> uno game
    timers,                   \* pending setTimeout callbacks, in scheduling order
    last,                     \* the handler that ran last: request, answer, emits
    ops,                      \* how many game requests have been carried out
    dataCache,                \* Map key -> {data, timestamp}, in insertion order
    homepageCache,            \* Map key -> {data, timestamp}, in insertion order
    rooms                     \* socket id -> the rooms the socket is in

vars == <<sessionStore, handshake, activeConnections, homepageConnections,
          authenticatedConnections, conns, now, chessGames, ludoGames,
          ticTacToeGames, unoGames, timers, last, ops,
          dataCache, homepageCache, rooms>>

connVars == <<activeConnections, homepageConnections, authenticatedConnections, conns>>
gameVars == <<chessGames, ludoGames, ticTacToeGames, unoGames>>
cacheVars == <<dataCache, homepageCache>>

\* JavaScript's undefined, as a string, as a text (no text of characters equals
\* it: its one element is longer than a character) and as an object
Undefined == "undefined"
UndefinedText == <<"undefined">>
UndefinedObject == [undefined |-> TRUE]

Min(a, b) == IF a < b THEN a ELSE b
Max(a, b) == IF a > b THEN a ELSE b

-----------------------------------------------------------------------------
(* Text helpers: String.prototype.split / trim / startsWith / substring and *)
(* decodeURIComponent, on sequences of characters.                          *)

RECURSIVE IndexOf(_, _, _)
\* least i >= from with s[i] = ch, or 0
IndexOf(s, ch, from) ==
    IF from > Len(s) THEN 0
    ELSE IF s[from] = ch THEN from
    ELSE IndexOf(s, ch, from + 1)

RECURSIVE Split(_, _)
\* s.split(ch): always at least one piece
Split(s, ch) ==
    LET i == IndexOf(s, ch, 1)
    IN  IF i = 0 THEN <<s>>
        ELSE <<SubSeq(s, 1, i - 1)>> \o Split(SubSeq(s, i + 1, Len(s)), ch)

RECURSIVE TrimLeft(_)
TrimLeft(s) == IF s # <<>> /\ s[1] = " " THEN TrimLeft(Tail(s)) ELSE s

RECURSIVE TrimRight(_)
TrimRight(s) ==
    IF s # <<>> /\ s[Len(s)] = " " THEN TrimRight(SubSeq(s, 1, Len(s) - 1)) ELSE s

Trim(s) == TrimRight(TrimLeft(s))

StartsWith(s, p) == Len(s) >= Len(p) /\ SubSeq(s, 1, Len(p)) = p

URIError == <<"URIError">>

HexDigits == {"0", "1", "2", "3", "4", "5", "6", "7", "8", "9",
              "A", "B", "C", "D", "E", "F", "a", "b", "c", "d", "e", "f"}

\* the escapes the modelled cookies use; any other well-formed escape is kept
\* out of the inputs, a malformed one throws
PercentDecode(h1, h2) ==
    CASE h1 = "3" /\ h2 \in {"A", "a"} -> ":"
      [] h1 = "2" /\ h2 \in {"E", "e"} -> "."
      [] h1 = "2" /\ h2 = "0" -> " "
      [] OTHER -> "?"

RECURSIVE decodeURIComponent(_)
decodeURIComponent(s) ==
    IF s = <<>> THEN <<>>
    ELSE IF s[1] # "%"
         THEN LET rest == decodeURIComponent(Tail(s))
              IN  IF rest = URIError THEN URIError ELSE <<s[1]>> \o rest
    ELSE IF Len(s) < 3 \/ s[2] \notin HexDigits \/ s[3] \notin HexDigits
         THEN URIError
    ELSE LET rest == decodeURIComponent(SubSeq(s, 4, Len(s)))
         IN  IF rest = URIError THEN URIError
             ELSE <<PercentDecode(s[2], s[3])>> \o rest

-----------------------------------------------------------------------------
(* Session bridge: io.use                                                   *)

NoHeader == UndefinedText
NoSession == UndefinedObject
NoUser == UndefinedObject

Roles == {"gamer", "viewer"}
UserRole == [alice |-> "gamer", bob |-> "gamer", carol |-> "gamer", dave |-> "viewer"]
Users == DOMAIN UserRole
UserRecord(u) == [username |-> u, role |-> UserRole[u]]

SessionIds == {<<"a">>, <<"b">>}
\* what the store can hold under an id: nothing (never created, destroyed or
\* expired), a session before login, a session after login
SessionValues ==
    {NoSession, [user |-> NoUser]} \cup {[user |-> UserRecord(u)] : u \in {"alice", "dave"}}

RECURSIVE CookieValue(_, _, _)
\* cookies[name] after the forEach over pieces 1..n: the last piece that
\* splits into at least two parts and whose trimmed first part is name wins
CookieValue(pieces, name, n) ==
    IF n = 0 THEN UndefinedText
    ELSE LET parts == Split(pieces[n], "=")
         IN  IF Len(parts) >= 2 /\ Trim(parts[1]) = name
             THEN parts[2]
             ELSE CookieValue(pieces, name, n - 1)

ParseCookies(cookieHeader, name) ==
    LET pieces == Split(cookieHeader, ";")
    IN  CookieValue(pieces, name, Len(pieces))

SidPrefix == <<"s", ":">>

Refuse(msg) == [admitted |-> FALSE, error |-> msg, username |-> Undefined, role |-> Undefined]

StoreCallbackIgnoringErr(err, session) ==
    IF session = NoSession \/ session.user = NoUser
    THEN Refuse("Authentication required: Session not found or expired")
    ELSE [admitted |-> TRUE, error |-> "none",
          username |-> session.user.username, role |-> session.user.role]

\* sessionStore.get(sid, cb): err is the store's failure, an input
StoreCallback(err, session) ==
    IF err \/ session = NoSession \/ session.user = NoUser
    THEN Refuse("Authentication required: Session not found or expired")
    ELSE [admitted |-> TRUE, error |-> "none",
          username |-> session.user.username, role |-> session.user.role]

SessionIdOf(sidCookie) == Split(SubSeq(sidCookie, 3, Len(sidCookie)), ".")[1]

IoUse(cookieHeader, store, err) ==
    IF cookieHeader = NoHeader \/ cookieHeader = <<>>
    THEN Refuse("Authentication required: No cookies found")
    ELSE LET raw == ParseCookies(cookieHeader, <<"s", "i", "d">>)
         IN  IF raw = UndefinedText \/ raw = <<>>
             THEN Refuse("Authentication required: Session cookie missing")
             ELSE LET sidCookie == decodeURIComponent(raw)
                  IN  IF sidCookie = URIError
                      THEN Refuse("URIError: URI malformed")
                      ELSE IF ~StartsWith(sidCookie, SidPrefix)
                      THEN Refuse("Authentication required: Invalid session cookie format")
                      ELSE LET sid == SessionIdOf(sidCookie)
                           IN  IF sid = <<>>
                               THEN Refuse("Authentication required: Invalid session ID")
                               ELSE StoreCallback(err,
                                        IF sid \in DOMAIN store THEN store[sid] ELSE NoSession)

\* the store as the application and its expiry leave it: any id may hold any value
StoreSet(sid, value) ==
    /\ sessionStore[sid] # value
    /\ sessionStore' = [sessionStore EXCEPT ![sid] = value]
    /\ UNCHANGED <<handshake, connVars, now, gameVars, timers, last, ops,
                   cacheVars, rooms>>

\* one run of the middleware on one handshake
Handshake(cookieHeader, err) ==
    /\ handshake' = [ran |-> TRUE, cookieHeader |-> cookieHeader, err |-> err,
                     store |-> sessionStore,
                     result |-> IoUse(cookieHeader, sessionStore, err)]
    /\ UNCHANGED <<sessionStore, connVars, now, gameVars, timers, last, ops,
                   cacheVars, rooms>>


-----------------------------------------------------------------------------
(* Connection handling: io.on("connection") and socket.on("disconnect")     *)

maxConnections == 300
retryAfter == 30000

\* a handshake that passed io.use: the socket's id, the user the middleware
\* attached, and whether the referer names homepage.html
Socket(id, u, hp) == [id |-> id, username |-> u, homepage |-> hp]

NoResponse == 0
NoGame == -1
NoArgs == [none |-> TRUE]

\* what a handler leaves behind: the request, the HTTP status it answered
\* (NoResponse for a channel handler) and the events it emitted, in order
Ran(op, actor, gameId, args, code, emits) ==
    [op |-> op, actor |-> actor, gameId |-> gameId, args |-> args,
     code |-> code, emits |-> emits]

Emit(to, event, payload) == [to |-> to, event |-> event, payload |-> payload]

\* socket.sessionId is assigned nowhere; no player object is built with a
\* socketId property
SocketSessionId(socket) == Undefined
PlayerSocketId(p) ==
    IF "socketId" \in DOMAIN p THEN p.socketId ELSE Undefined

Range(f) == {f[x] : x \in DOMAIN f}

\* the four loops of the disconnect handler decide per game whether the
\* departing socket is one of its players
ChessHasSocket(game, socket) == SocketSessionId(socket) \in Range(game.players)
HasSocket(game, socket) ==
    \E i \in DOMAIN game.players : PlayerSocketId(game.players[i]) = socket.id

\* the ids of the games one of the last three loops finds the socket in
Hit(games, socket) == {g \in DOMAIN games : HasSocket(games[g], socket)}

Abandon(games, ids) ==
    [g \in DOMAIN games |->
        IF g \in ids THEN [games[g] EXCEPT !.status = "abandoned"] ELSE games[g]]

RECURSIVE SetToSeq(_)
\* the elements of a finite set of numbers in increasing order (Map iteration
\* order is insertion order, and ids are inserted in clock order)
SetToSeq(S) ==
    IF S = {} THEN <<>>
    ELSE LET m == CHOOSE x \in S : \A y \in S : x <= y
         IN  <<m>> \o SetToSeq(S \ {m})

\* setTimeout(() => container.delete(gameId), 300000), one per game hit
DeleteTimers(container, ids) ==
    [i \in 1..Cardinality(ids) |->
        [kind |-> "delete", container |-> container, gameId |-> SetToSeq(ids)[i],
         at |-> now + 300000]]

\* if (activeConnections > maxConnections), read after the increment
OverloadedOffByOne(active) == active >= maxConnections
Overloaded(active) == active > maxConnections

Counters == [active |-> activeConnections, homepage |-> homepageConnections,
             authenticated |-> authenticatedConnections]

Connect(socket) ==
    LET overload == Overloaded(activeConnections + 1)
    IN  /\ activeConnections' = IF overload THEN activeConnections
                                ELSE activeConnections + 1
        /\ homepageConnections' =
              IF socket.homepage /\ ~overload THEN homepageConnections + 1
              ELSE homepageConnections
        /\ authenticatedConnections' =
              IF ~socket.homepage /\ ~overload THEN authenticatedConnections + 1
              ELSE authenticatedConnections
        /\ conns' = IF overload THEN conns
                    ELSE [conns EXCEPT ![socket] = @ + 1]
        /\ last' = Ran("connection", socket.username, NoGame,
                       [homepage |-> socket.homepage, before |-> Counters],
                       NoResponse,
                       IF overload
                       THEN <<Emit(socket.id, "server-overload", [retryAfter |-> retryAfter]),
                              Emit(socket.id, "disconnect", NoArgs)>>
                       ELSE <<>>)
        /\ UNCHANGED <<sessionStore, handshake, cacheVars, rooms, now, gameVars, timers, ops>>

\* a disconnect handler that counts down the global counter alone
DisconnectCountingOnce(socket) ==
    LET chessHit == {g \in DOMAIN chessGames :
                        ChessHasSocket(chessGames[g], socket)}
    IN  /\ conns[socket] > 0
        /\ conns' = [conns EXCEPT ![socket] = @ - 1]
        /\ activeConnections' = activeConnections - 1
        /\ UNCHANGED <<homepageConnections, authenticatedConnections>>
        /\ IF socket.homepage
           THEN UNCHANGED <<gameVars, timers>>
           ELSE /\ chessGames' = Abandon(chessGames, chessHit)
                /\ ludoGames' = Abandon(ludoGames, Hit(ludoGames, socket))
                /\ ticTacToeGames' = Abandon(ticTacToeGames, Hit(ticTacToeGames, socket))
                /\ unoGames' = Abandon(unoGames, Hit(unoGames, socket))
                /\ timers' = timers
                     \o DeleteTimers("chess", chessHit)
                     \o DeleteTimers("ludo", Hit(ludoGames, socket))
                     \o DeleteTimers("tictactoe", Hit(ticTacToeGames, socket))
                     \o DeleteTimers("uno", Hit(unoGames, socket))
        /\ rooms' = [rooms EXCEPT ![socket.id] = {}]
        /\ last' = Ran("disconnect", socket.username, NoGame,
                       [homepage |-> socket.homepage, before |-> Counters],
                       NoResponse, <<>>)
        /\ UNCHANGED <<sessionStore, handshake, cacheVars, now, ops>>

\* socket.on("disconnect")
Disconnect(socket) ==
    LET chessHit == {g \in DOMAIN chessGames :
                        ChessHasSocket(chessGames[g], socket)}
    IN  /\ conns[socket] > 0
        /\ conns' = [conns EXCEPT ![socket] = @ - 1]
        /\ activeConnections' = activeConnections - 1
        /\ homepageConnections' =
              IF socket.homepage THEN homepageConnections - 1 ELSE homepageConnections
        /\ authenticatedConnections' =
              IF socket.homepage THEN authenticatedConnections
              ELSE authenticatedConnections - 1
        /\ IF socket.homepage
           THEN UNCHANGED <<gameVars, timers>>
           ELSE /\ chessGames' = Abandon(chessGames, chessHit)
                /\ ludoGames' = Abandon(ludoGames, Hit(ludoGames, socket))
                /\ ticTacToeGames' = Abandon(ticTacToeGames, Hit(ticTacToeGames, socket))
                /\ unoGames' = Abandon(unoGames, Hit(unoGames, socket))
                /\ timers' = timers
                     \o DeleteTimers("chess", chessHit)
                     \o DeleteTimers("ludo", Hit(ludoGames, socket))
                     \o DeleteTimers("tictactoe", Hit(ticTacToeGames, socket))
                     \o DeleteTimers("uno", Hit(unoGames, socket))
        /\ rooms' = [rooms EXCEPT ![socket.id] = {}]
        /\ last' = Ran("disconnect", socket.username, NoGame,
                       [homepage |-> socket.homepage, before |-> Counters],
                       NoResponse, <<>>)
        /\ UNCHANGED <<sessionStore, handshake, cacheVars, now, ops>>


-----------------------------------------------------------------------------
(* Shared by the game endpoints                                             *)

\* a gate that asks for a session only
GateIgnoringRole(actor) ==
    IF actor = Undefined THEN 401 ELSE 200

\* requireAuth, then the role check every game endpoint starts with; actor is
\* req.session.user's username, Undefined without an authenticated session
Gate(actor) ==
    IF actor = Undefined THEN 401
    ELSE IF UserRole[actor] # "gamer" THEN 403
    ELSE 200

Put(map, key, value) ==
    [x \in DOMAIN map \cup {key} |-> IF x = key THEN value ELSE map[x]]

Remove(map, keys) == [x \in DOMAIN map \ keys |-> map[x]]

Push(seq, x) == Append(seq, x)

HasPlayerNamed(game, name) == \E i \in DOMAIN game.players : game.players[i].name = name

\* the callbacks that hold a game object no container holds any longer change
\* nothing the program can observe: they leave the queue with the object
DropTimers(queue, container, ids) ==
    SelectSeq(queue, LAMBDA t : ~(t.kind = "ludoAuto" /\ t.container = container
                                   /\ t.gameId \in ids))

TotalGames ==
    Cardinality(DOMAIN chessGames) + Cardinality(DOMAIN ludoGames)
        + Cardinality(DOMAIN ticTacToeGames) + Cardinality(DOMAIN unoGames)

\* a request that the gate turns away, before its parameters are read
Denied(op, actor) ==
    /\ Gate(actor) # 200
    /\ last' = Ran(op, actor, NoGame, NoArgs, Gate(actor), <<>>)
    /\ UNCHANGED <<sessionStore, handshake, cacheVars, rooms, connVars, now, gameVars, timers, ops>>

-----------------------------------------------------------------------------
(* Ludo                                                                     *)

NullRoll == 0
Goal == 56
Home == -1

NewPieces == [i \in 1..4 |-> [position |-> Home, id |-> i - 1]]

LudoHuman(name) ==
    [name |-> name, isComputer |-> FALSE, difficulty |-> Undefined,
     pieces |-> NewPieces, piecesInGoal |-> 0]

LudoComputer(name, difficulty) ==
    [name |-> name, isComputer |-> TRUE, difficulty |-> difficulty,
     pieces |-> NewPieces, piecesInGoal |-> 0]

NewLudoGame(gameId, creator, createdAt) ==
    [id |-> gameId, players |-> <<LudoHuman(creator)>>, maxPlayers |-> 4,
     status |-> "waiting", currentPlayerIndex |-> 0, diceRolled |-> FALSE,
     lastDiceRoll |-> NullRoll, board |-> "null", createdAt |-> createdAt,
     gameMode |-> Undefined, winner |-> Undefined]

LudoCreate(actor) ==
    \/ Denied("ludo/create", actor)
    \/ /\ Gate(actor) = 200
       /\ LET gameId == now
              game == NewLudoGame(gameId, actor, now)
          IN  /\ ludoGames' = Put(ludoGames, gameId, game)
              /\ timers' = DropTimers(timers, "ludo", {gameId})
              /\ last' = Ran("ludo/create", actor, gameId, NoArgs, 200, <<>>)
       /\ ops' = ops + 1
       /\ UNCHANGED <<sessionStore, handshake, cacheVars, rooms, connVars, now,
                      chessGames, ticTacToeGames, unoGames>>

\* an endpoint that answers code and changes no game
Answer(op, actor, gameId, code) ==
    /\ last' = Ran(op, actor, gameId, NoArgs, code, <<>>)
    /\ UNCHANGED <<sessionStore, handshake, cacheVars, rooms, connVars, now, gameVars, timers, ops>>

\* an endpoint that replaces one ludo game, emits one event to the gaming room
\* with the game as it is now, and answers 200
LudoUpdate(op, actor, gameId, args, game, event, queue) ==
    /\ ludoGames' = [ludoGames EXCEPT ![gameId] = game]
    /\ timers' = queue
    /\ last' = Ran(op, actor, gameId, args, 200,
                   <<Emit("gaming-room", event,
                          IF event = "ludo-dice-rolled"
                          THEN [gameId |-> gameId, diceRoll |-> args.diceRoll,
                                game |-> game]
                          ELSE [gameId |-> gameId, game |-> game])>>)
    /\ ops' = ops + 1
    /\ UNCHANGED <<sessionStore, handshake, cacheVars, rooms, connVars, now,
                   chessGames, ticTacToeGames, unoGames>>

LudoJoin(actor, gameId) ==
    LET op == "ludo/join"
    IN  \/ Denied(op, actor)
        \/ /\ Gate(actor) = 200
           /\ IF gameId \notin DOMAIN ludoGames
              THEN Answer(op, actor, gameId, 404)
              ELSE LET game == ludoGames[gameId]
                   IN  IF Len(game.players) >= game.maxPlayers
                       THEN Answer(op, actor, gameId, 400)
                       ELSE IF HasPlayerNamed(game, actor)
                       THEN Answer(op, actor, gameId, 400)
                       ELSE LudoUpdate(op, actor, gameId, NoArgs,
                                [game EXCEPT !.players = Push(@, LudoHuman(actor))],
                                "ludo-game-updated", timers)

Capitalized ==
    [easy |-> "Easy", medium |-> "Medium", hard |-> "Hard"]

ComputerNames ==
    <<"Computer 1", "Computer 2", "Computer 3", "Computer 4",
      "Computer 5", "Computer 6", "Computer 7">>

SingleModeNames ==
    [easy |-> "Computer (Easy)", medium |-> "Computer (Medium)",
     hard |-> "Computer (Hard)"]

\* the players the start request pushes; i counts from 0 as in the loop
ComputerPlayers(needed, gameMode, difficulty) ==
    LET chosen == IF difficulty = Undefined THEN "medium" ELSE difficulty
    IN  [k \in 1..needed |->
            IF gameMode = "single"
            THEN LudoComputer(SingleModeNames[chosen], chosen)
            ELSE LudoComputer(ComputerNames[k], "medium")]

LudoStart(actor, gameId, playerCount, addComputer, gameMode, difficulty) ==
    LET op == "ludo/start"
        args == [playerCount |-> playerCount, addComputer |-> addComputer,
                 gameMode |-> gameMode, difficulty |-> difficulty]
    IN  \/ Denied(op, actor)
        \/ /\ Gate(actor) = 200
           /\ IF gameId \notin DOMAIN ludoGames
              THEN Answer(op, actor, gameId, 404)
              ELSE LET game == ludoGames[gameId]
                       maxPlayers == Min(Max(playerCount, 2), 8)
                       needed == IF addComputer /\ Len(game.players) < maxPlayers
                                 THEN maxPlayers - Len(game.players) ELSE 0
                   IN  LudoUpdate(op, actor, gameId, args,
                           [game EXCEPT
                               !.maxPlayers = maxPlayers,
                               !.gameMode = IF gameMode = Undefined THEN "multi"
                                            ELSE gameMode,
                               !.players = @ \o ComputerPlayers(needed, gameMode, difficulty),
                               !.status = "playing",
                               !.board = "Array(52)"],
                           "ludo-game-started", timers)

\* getValidMoves(game, playerIndex, diceRoll): the piece indexes it lists
getValidMoves(game, playerIndex, diceRoll) ==
    LET player == game.players[playerIndex + 1]
    IN  {pieceIndex \in 0..3 :
            LET position == player.pieces[pieceIndex + 1].position
            IN  \/ position = Home /\ diceRoll = 6
                \/ /\ position >= 0 /\ position < 51
                   /\ position + diceRoll <= Goal}

LudoRoll(actor, gameId, diceRoll) ==
    LET op == "ludo/roll"
    IN  \/ Denied(op, actor)
        \/ /\ Gate(actor) = 200
           /\ IF gameId \notin DOMAIN ludoGames
              THEN Answer(op, actor, gameId, 404)
              ELSE LET game == ludoGames[gameId]
                       currentPlayer == game.players[game.currentPlayerIndex + 1]
                   IN  IF currentPlayer.name # actor
                       THEN Answer(op, actor, gameId, 400)
                       ELSE IF game.diceRolled
                       THEN Answer(op, actor, gameId, 400)
                       ELSE LudoUpdate(op, actor, gameId, [diceRoll |-> diceRoll],
                                [game EXCEPT !.lastDiceRoll = diceRoll,
                                             !.diceRolled = TRUE],
                                "ludo-dice-rolled",
                                Append(timers,
                                    [kind |-> "ludoAuto", container |-> "ludo",
                                     gameId |-> gameId,
                                     roller |-> game.currentPlayerIndex,
                                     diceRoll |-> diceRoll]))

\* the piece the move names, after a move that forgets the cap
MovedPieceUncapped(piece, diceRoll) ==
    IF piece.position = Home /\ diceRoll = 6
    THEN [piece EXCEPT !.position = 0]
    ELSE IF piece.position >= 0
    THEN [piece EXCEPT !.position = piece.position + diceRoll]
    ELSE piece

\* the piece the move names, after the move
MovedPiece(piece, diceRoll) ==
    IF piece.position = Home /\ diceRoll = 6
    THEN [piece EXCEPT !.position = 0]
    ELSE IF piece.position >= 0
    THEN [piece EXCEPT !.position = Min(piece.position + diceRoll, Goal)]
    ELSE piece

\* whether the move counts the piece into the goal
CountsGoal(piece, diceRoll) ==
    /\ piece.position >= 0
    /\ MovedPiece(piece, diceRoll).position = Goal

\* the game after a move that passes the turn on whatever the roll
LudoMovedPassingTheTurn(game, pieceIndex, diceRoll) ==
    LET idx == game.currentPlayerIndex + 1
        currentPlayer == game.players[idx]
        piece == currentPlayer.pieces[pieceIndex + 1]
        inGoal == IF CountsGoal(piece, diceRoll)
                  THEN currentPlayer.piecesInGoal + 1
                  ELSE currentPlayer.piecesInGoal
        moved == [currentPlayer EXCEPT
                     !.pieces[pieceIndex + 1] = MovedPiece(piece, diceRoll),
                     !.piecesInGoal = inGoal]
    IN  [game EXCEPT
            !.players[idx] = moved,
            !.status = IF inGoal = 4 THEN "finished" ELSE @,
            !.winner = IF inGoal = 4 THEN currentPlayer.name ELSE @,
            !.currentPlayerIndex = (@ + 1) % Len(game.players),
            !.diceRolled = FALSE,
            !.lastDiceRoll = NullRoll]

\* the game after the body of the ludo-move handler
LudoMoved(game, pieceIndex, diceRoll) ==
    LET idx == game.currentPlayerIndex + 1
        currentPlayer == game.players[idx]
        piece == currentPlayer.pieces[pieceIndex + 1]
        inGoal == IF CountsGoal(piece, diceRoll)
                  THEN currentPlayer.piecesInGoal + 1
                  ELSE currentPlayer.piecesInGoal
        moved == [currentPlayer EXCEPT
                     !.pieces[pieceIndex + 1] = MovedPiece(piece, diceRoll),
                     !.piecesInGoal = inGoal]
    IN  [game EXCEPT
            !.players[idx] = moved,
            !.status = IF inGoal = 4 THEN "finished" ELSE @,
            !.winner = IF inGoal = 4 THEN currentPlayer.name ELSE @,
            !.currentPlayerIndex =
                IF diceRoll # 6 THEN (@ + 1) % Len(game.players) ELSE @,
            !.diceRolled = FALSE,
            !.lastDiceRoll = NullRoll]

\* socket.on("ludo-move"): a channel message, answered by no response
LudoMove(socket, gameId, pieceIndex, diceRoll) ==
    LET op == "ludo-move"
        args == [pieceIndex |-> pieceIndex, diceRoll |-> diceRoll]
        silent == /\ last' = Ran(op, socket.username, gameId, NoArgs, NoResponse, <<>>)
                  /\ UNCHANGED <<gameVars, timers, ops>>
    IN  /\ conns[socket] > 0
        /\ UNCHANGED <<sessionStore, handshake, cacheVars, rooms, connVars, now>>
        /\ IF gameId \notin DOMAIN ludoGames
           THEN silent
           ELSE LET game == ludoGames[gameId]
                IN  IF game.status # "playing"
                    THEN silent
                    ELSE IF game.players[game.currentPlayerIndex + 1].name
                                # socket.username
                    THEN silent
                    ELSE LET after == LudoMoved(game, pieceIndex, diceRoll)
                         IN  /\ ludoGames' = [ludoGames EXCEPT ![gameId] = after]
                             /\ last' = Ran(op, socket.username, gameId, args,
                                            NoResponse,
                                            <<Emit("gaming-room", "ludo-move-made",
                                                   [gameId |-> gameId,
                                                    game |-> after])>>)
                             /\ ops' = ops + 1
                             /\ UNCHANGED <<chessGames, ticTacToeGames, unoGames, timers>>


-----------------------------------------------------------------------------
(* Tic-tac-toe                                                              *)

Null == "null"

NewTicTacToeGame(gameId, creator, createdAt) ==
    [id |-> gameId, players |-> <<[name |-> creator, symbol |-> "X"]>>,
     board |-> [cell \in 1..9 |-> ""], currentPlayer |-> "X",
     status |-> "waiting", winner |-> Null, createdAt |-> createdAt]

\* the id is 'ttt_' + Date.now().toString(), the key of a container of its own
TicTacToeCreate(actor) ==
    \/ Denied("tictactoe/create", actor)
    \/ /\ Gate(actor) = 200
       /\ ticTacToeGames' = Put(ticTacToeGames, now, NewTicTacToeGame(now, actor, now))
       /\ last' = Ran("tictactoe/create", actor, now, NoArgs, 200, <<>>)
       /\ ops' = ops + 1
       /\ UNCHANGED <<sessionStore, handshake, cacheVars, rooms, connVars, now,
                      chessGames, ludoGames, unoGames, timers>>

\* an endpoint that replaces one tic-tac-toe game, emits one event to the
\* gaming room and answers 200
TicTacToeUpdate(op, actor, gameId, args, game, event, payload) ==
    /\ ticTacToeGames' = [ticTacToeGames EXCEPT ![gameId] = game]
    /\ last' = Ran(op, actor, gameId, args, 200,
                   <<Emit("gaming-room", event, payload)>>)
    /\ ops' = ops + 1
    /\ UNCHANGED <<sessionStore, handshake, cacheVars, rooms, connVars, now,
                   chessGames, ludoGames, unoGames, timers>>

TicTacToeJoin(actor, gameId) ==
    LET op == "tictactoe/join"
    IN  \/ Denied(op, actor)
        \/ /\ Gate(actor) = 200
           /\ IF gameId \notin DOMAIN ticTacToeGames
              THEN Answer(op, actor, gameId, 404)
              ELSE LET game == ticTacToeGames[gameId]
                       after == [game EXCEPT
                                    !.players = Push(@, [name |-> actor, symbol |-> "O"]),
                                    !.status = "playing"]
                   IN  IF Len(game.players) >= 2
                       THEN Answer(op, actor, gameId, 400)
                       ELSE IF HasPlayerNamed(game, actor)
                       THEN Answer(op, actor, gameId, 400)
                       ELSE TicTacToeUpdate(op, actor, gameId, NoArgs, after,
                                "tictactoe-game-updated",
                                [gameId |-> gameId, game |-> after])

\* cells counted from 0, as in the code
winPatterns ==
    <<<<0, 1, 2>>, <<3, 4, 5>>, <<6, 7, 8>>,
      <<0, 3, 6>>, <<1, 4, 7>>, <<2, 5, 8>>,
      <<0, 4, 8>>, <<2, 4, 6>>>>

\* board[a] && board[a] === board[b] && board[a] === board[c]
PatternMatches(board, pattern) ==
    /\ board[pattern[1] + 1] # ""
    /\ board[pattern[1] + 1] = board[pattern[2] + 1]
    /\ board[pattern[1] + 1] = board[pattern[3] + 1]

\* the winner the check finds when it leaves out the last diagonal
checkTicTacToeWinnerWithoutLastPattern(board) ==
    LET hits == {n \in 1..7 : PatternMatches(board, winPatterns[n])}
    IN  IF hits = {} THEN Null
        ELSE board[winPatterns[CHOOSE n \in hits : \A o \in hits : n <= o][1] + 1]

\* the symbol of the first pattern that matches, null when none does
checkTicTacToeWinner(board) ==
    LET hits == {n \in DOMAIN winPatterns : PatternMatches(board, winPatterns[n])}
    IN  IF hits = {} THEN Null
        ELSE board[winPatterns[CHOOSE n \in hits : \A o \in hits : n <= o][1] + 1]

\* game.board[position]: undefined outside the nine cells
CellAt(board, position) ==
    IF position \in 0..8 THEN board[position + 1] ELSE Undefined

\* the game after the body of the move, for a free cell
TicTacToeMoved(game, symbol, position) ==
    LET board == [game.board EXCEPT ![position + 1] = symbol]
        winner == checkTicTacToeWinner(board)
    IN  IF winner # Null
        THEN [game EXCEPT !.board = board, !.status = "finished", !.winner = winner]
        ELSE IF \A cell \in DOMAIN board : board[cell] # ""
        THEN [game EXCEPT !.board = board, !.status = "draw"]
        ELSE [game EXCEPT !.board = board,
                          !.currentPlayer = IF @ = "X" THEN "O" ELSE "X"]

TicTacToeMove(actor, gameId, position) ==
    LET op == "tictactoe/move"
    IN  \/ Denied(op, actor)
        \/ /\ Gate(actor) = 200
           /\ IF gameId \notin DOMAIN ticTacToeGames
              THEN Answer(op, actor, gameId, 404)
              ELSE LET game == ticTacToeGames[gameId]
                       mine == {i \in DOMAIN game.players : game.players[i].name = actor}
                       player == game.players[CHOOSE i \in mine : \A j \in mine : i <= j]
                       after == TicTacToeMoved(game, player.symbol, position)
                   IN  IF mine = {}
                       THEN Answer(op, actor, gameId, 403)
                       ELSE IF game.currentPlayer # player.symbol
                       THEN Answer(op, actor, gameId, 400)
                       ELSE IF CellAt(game.board, position) # ""
                       THEN Answer(op, actor, gameId, 400)
                       ELSE TicTacToeUpdate(op, actor, gameId, [position |-> position],
                                after, "tictactoe-move-made",
                                [gameId |-> gameId, position |-> position,
                                 symbol |-> player.symbol, game |-> after])

-----------------------------------------------------------------------------
(* UNO                                                                      *)

Card(color, value, type) == [color |-> color, value |-> value, type |-> type]

Colors == <<"red", "blue", "green", "yellow">>
NumbersFrom1 == <<"1", "2", "3", "4", "5", "6", "7", "8", "9">>
Specials == <<"skip", "reverse", "draw2">>

RECURSIVE Flatten(_)
Flatten(seqs) == IF seqs = <<>> THEN <<>> ELSE Head(seqs) \o Flatten(Tail(seqs))

\* one 0, then two of each of 1..9
NumberCards(color) ==
    <<Card(color, "0", "number")>>
        \o [k \in 1..18 |-> Card(color, NumbersFrom1[(k + 1) \div 2], "number")]

\* two of each special
SpecialCards(color) ==
    [k \in 1..6 |-> Card(color, Specials[(k + 1) \div 2], "special")]

\* four times: a wild, then a wild4
WildCards ==
    [k \in 1..8 |-> Card("wild", IF k % 2 = 1 THEN "wild" ELSE "wild4", "wild")]

createUNODeck ==
    Flatten([c \in 1..4 |-> NumberCards(Colors[c])])
        \o Flatten([c \in 1..4 |-> SpecialCards(Colors[c])])
        \o WildCards

\* the values Math.random() returns to one shuffle, as fractions in [0, 1):
\* the first calls get the fractions of head, in order, every later call rest
RandomAt(stream, n) ==
    IF n <= Len(stream.head) THEN stream.head[n] ELSE stream.rest

Swap(array, i, j) == [array EXCEPT ![i] = array[j], ![j] = array[i]]

RECURSIVE ShuffleFrom(_, _, _, _)
\* the loop of shuffleArray from index i (counted from 0) down, n counting the
\* calls of Math.random(): j = Math.floor(Math.random() * (i + 1))
ShuffleFrom(array, i, stream, n) ==
    IF i <= 0 \/ Len(array) = 0 THEN array
    ELSE LET r == RandomAt(stream, n)
             j == (r.num * (i + 1)) \div r.den
         IN  ShuffleFrom(Swap(array, i + 1, j + 1), i - 1, stream, n + 1)

shuffleArray(array, stream) == ShuffleFrom(array, Len(array) - 1, stream, 1)

\* the cards count pops take off the end of the deck, in the order popped
Popped(deck, count) == [m \in 1..count |-> deck[Len(deck) - (m - 1)]]
AfterPops(deck, count) == SubSeq(deck, 1, Len(deck) - count)

RECURSIVE PlaceFirstCard(_)
\* do { firstCard = game.deck.pop(); } while (firstCard.type === 'wild');
\* at most four hands are dealt, so a card that is not wild is always left
PlaceFirstCard(deck) ==
    LET firstCard == deck[Len(deck)]
    IN  IF firstCard.type = "wild"
        THEN PlaceFirstCard(AfterPops(deck, 1))
        ELSE [deck |-> AfterPops(deck, 1), firstCard |-> firstCard]

initializeUNOGame(game, stream) ==
    LET deck == shuffleArray(createUNODeck, stream)
        n == Len(game.players)
        placed == PlaceFirstCard(AfterPops(deck, 7 * n))
    IN  [game EXCEPT
            !.players = [k \in 1..n |->
                            [game.players[k] EXCEPT
                                !.hand = Popped(AfterPops(deck, 7 * (k - 1)), 7)]],
            !.deck = placed.deck,
            !.discardPile = <<placed.firstCard>>,
            !.currentColor = placed.firstCard.color,
            !.currentNumber = placed.firstCard.value,
            !.currentPlayerIndex = 0,
            !.direction = 1]

NewUnoGame(gameId, creator, createdAt) ==
    [id |-> gameId,
     players |-> <<[name |-> creator, hand |-> <<>>, saidUNO |-> FALSE]>>,
     maxPlayers |-> 4, deck |-> <<>>, discardPile |-> <<>>,
     currentPlayerIndex |-> 0, currentColor |-> "", currentNumber |-> "",
     direction |-> 1, status |-> "waiting", createdAt |-> createdAt,
     winner |-> Undefined]

\* the id is 'uno_' + Date.now().toString(), the key of a container of its own
UnoCreate(actor) ==
    \/ Denied("uno/create", actor)
    \/ /\ Gate(actor) = 200
       /\ unoGames' = Put(unoGames, now, NewUnoGame(now, actor, now))
       /\ last' = Ran("uno/create", actor, now, NoArgs, 200, <<>>)
       /\ ops' = ops + 1
       /\ UNCHANGED <<sessionStore, handshake, cacheVars, rooms, connVars, now,
                      chessGames, ludoGames, ticTacToeGames, timers>>

\* an endpoint that replaces one uno game, emits one event to the gaming room
\* and answers 200
\* a card match changed, and broadcast as it was before the change
UnoUpdateEmittingBefore(op, actor, gameId, args, game, event, payload) ==
    /\ unoGames' = [unoGames EXCEPT ![gameId] = game]
    /\ last' = Ran(op, actor, gameId, args, 200,
                   <<Emit("gaming-room", event,
                          [payload EXCEPT !.game = unoGames[gameId]])>>)
    /\ ops' = ops + 1
    /\ UNCHANGED <<sessionStore, handshake, cacheVars, rooms, connVars, now,
                   chessGames, ludoGames, ticTacToeGames, timers>>

UnoUpdate(op, actor, gameId, args, game, event, payload) ==
    /\ unoGames' = [unoGames EXCEPT ![gameId] = game]
    /\ last' = Ran(op, actor, gameId, args, 200,
                   <<Emit("gaming-room", event, payload)>>)
    /\ ops' = ops + 1
    /\ UNCHANGED <<sessionStore, handshake, cacheVars, rooms, connVars, now,
                   chessGames, ludoGames, ticTacToeGames, timers>>

UnoJoin(actor, gameId, stream) ==
    LET op == "uno/join"
    IN  \/ Denied(op, actor)
        \/ /\ Gate(actor) = 200
           /\ IF gameId \notin DOMAIN unoGames
              THEN Answer(op, actor, gameId, 404)
              ELSE LET game == unoGames[gameId]
                       joined == [game EXCEPT !.players =
                                     Push(@, [name |-> actor, hand |-> <<>>,
                                              saidUNO |-> FALSE])]
                       after == IF Len(joined.players) >= 2
                                THEN initializeUNOGame(
                                         [joined EXCEPT !.status = "playing"], stream)
                                ELSE joined
                   IN  IF Len(game.players) >= game.maxPlayers
                       THEN Answer(op, actor, gameId, 400)
                       ELSE IF HasPlayerNamed(game, actor)
                       THEN Answer(op, actor, gameId, 400)
                       ELSE UnoUpdate(op, actor, gameId, NoArgs, after,
                                "uno-game-updated",
                                [gameId |-> gameId, game |-> after])

\* a rule that lets a card follow only its own color
canPlayUNOCardByColor(card, currentColor, currentNumber) ==
    \/ card.type = "wild"
    \/ card.color = currentColor

canPlayUNOCard(card, currentColor, currentNumber) ==
    \/ card.type = "wild"
    \/ card.color = currentColor
    \/ card.value = currentNumber

\* a step that forgets to wrap around the table
StepWithoutWrap(game, from) ==
    from + game.direction

\* (from + game.direction + game.players.length) % game.players.length
Step(game, from) ==
    (from + game.direction + Len(game.players)) % Len(game.players)

\* for (let i = 0; i < count && game.deck.length > 0; i++)
\*     game.players[playerIndex].hand.push(game.deck.pop());
DrawInto(game, playerIndex, count) ==
    LET n == Min(count, Len(game.deck))
    IN  [game EXCEPT
            !.players[playerIndex + 1].hand = @ \o Popped(game.deck, n),
            !.deck = AfterPops(game.deck, n)]

processUNOCardEffect(game, card) ==
    LET nextPlayerIndex == Step(game, game.currentPlayerIndex)
        turned == [game EXCEPT !.direction = 0 - @]
    IN  CASE card.value = "skip" ->
                [game EXCEPT !.currentPlayerIndex = Step(game, nextPlayerIndex)]
          [] card.value = "reverse" ->
                IF Len(game.players) = 2
                THEN [turned EXCEPT
                         !.currentPlayerIndex = Step(turned, turned.currentPlayerIndex)]
                ELSE turned
          [] card.value = "draw2" ->
                [DrawInto(game, nextPlayerIndex, 2) EXCEPT
                    !.currentPlayerIndex = Step(game, nextPlayerIndex)]
          [] card.value = "wild4" ->
                [DrawInto(game, nextPlayerIndex, 4) EXCEPT
                    !.currentPlayerIndex = Step(game, nextPlayerIndex)]
          [] OTHER -> game

\* currentPlayer.hand.splice(cardIndex, 1)
Splice(hand, cardIndex) ==
    SubSeq(hand, 1, cardIndex) \o SubSeq(hand, cardIndex + 2, Len(hand))

\* the game after the body of play-card, for a card that can be played
UnoPlayed(game, cardIndex, chosenColor) ==
    LET idx == game.currentPlayerIndex + 1
        currentPlayer == game.players[idx]
        card == currentPlayer.hand[cardIndex + 1]
        put == [game EXCEPT
                   !.players[idx].hand = Splice(@, cardIndex),
                   !.discardPile = Append(@, card),
                   !.currentColor =
                       IF card.type = "wild"
                       THEN (IF chosenColor = Undefined THEN "red" ELSE chosenColor)
                       ELSE card.color,
                   !.currentNumber = card.value]
        done == processUNOCardEffect(put, card)
    IN  IF done.players[idx].hand = <<>>
        THEN [done EXCEPT !.status = "finished", !.winner = currentPlayer.name]
        ELSE [done EXCEPT !.currentPlayerIndex = Step(done, done.currentPlayerIndex)]

\* a cardIndex below 0 reads undefined from the hand, canPlayUNOCard throws
\* on it, and the framework answers 500
UnoPlayCard(actor, gameId, cardIndex, chosenColor) ==
    LET op == "uno/play-card"
        args == [cardIndex |-> cardIndex, chosenColor |-> chosenColor]
    IN  \/ Denied(op, actor)
        \/ /\ Gate(actor) = 200
           /\ IF gameId \notin DOMAIN unoGames
              THEN Answer(op, actor, gameId, 404)
              ELSE LET game == unoGames[gameId]
                       currentPlayer == game.players[game.currentPlayerIndex + 1]
                       after == UnoPlayed(game, cardIndex, chosenColor)
                   IN  IF currentPlayer.name # actor
                       THEN Answer(op, actor, gameId, 400)
                       ELSE IF cardIndex >= Len(currentPlayer.hand)
                       THEN Answer(op, actor, gameId, 400)
                       ELSE IF cardIndex < 0
                       THEN Answer(op, actor, gameId, 500)
                       ELSE IF ~canPlayUNOCard(currentPlayer.hand[cardIndex + 1],
                                               game.currentColor, game.currentNumber)
                       THEN Answer(op, actor, gameId, 400)
                       ELSE UnoUpdate(op, actor, gameId, args, after,
                                "uno-card-played",
                                [gameId |-> gameId,
                                 card |-> currentPlayer.hand[cardIndex + 1],
                                 game |-> after])

reshuffleUNODeck(game, stream) ==
    IF Len(game.discardPile) <= 1 THEN game
    ELSE [game EXCEPT
             !.deck = shuffleArray(AfterPops(game.discardPile, 1), stream),
             !.discardPile = <<game.discardPile[Len(game.discardPile)]>>]

\* the game after the body of draw-card
UnoDrew(game, stream) ==
    LET ready == IF Len(game.deck) = 0 THEN reshuffleUNODeck(game, stream) ELSE game
    IN  IF Len(ready.deck) > 0
        THEN [DrawInto(ready, ready.currentPlayerIndex, 1) EXCEPT
                 !.currentPlayerIndex = Step(ready, ready.currentPlayerIndex)]
        ELSE ready

UnoDrawCard(actor, gameId, stream) ==
    LET op == "uno/draw-card"
    IN  \/ Denied(op, actor)
        \/ /\ Gate(actor) = 200
           /\ IF gameId \notin DOMAIN unoGames
              THEN Answer(op, actor, gameId, 404)
              ELSE LET game == unoGames[gameId]
                       currentPlayer == game.players[game.currentPlayerIndex + 1]
                       after == UnoDrew(game, stream)
                   IN  IF currentPlayer.name # actor
                       THEN Answer(op, actor, gameId, 400)
                       ELSE UnoUpdate(op, actor, gameId, NoArgs, after,
                                "uno-card-drawn",
                                [gameId |-> gameId, game |-> after])

-----------------------------------------------------------------------------
(* Chess                                                                    *)

initializeChessBoard ==
    << <<"r", "n", "b", "q", "k", "b", "n", "r">>,
       <<"p", "p", "p", "p", "p", "p", "p", "p">>,
       <<Null, Null, Null, Null, Null, Null, Null, Null>>,
       <<Null, Null, Null, Null, Null, Null, Null, Null>>,
       <<Null, Null, Null, Null, Null, Null, Null, Null>>,
       <<Null, Null, Null, Null, Null, Null, Null, Null>>,
       <<"P", "P", "P", "P", "P", "P", "P", "P">>,
       <<"R", "N", "B", "Q", "K", "B", "N", "R">> >>

\* a square is the text of a letter a..i followed by a digit
FileLetters == <<"a", "b", "c", "d", "e", "f", "g", "h", "i">>
DigitChars == <<"0", "1", "2", "3", "4", "5", "6", "7", "8", "9">>

\* ch.charCodeAt(0)
CharCodeAt(ch) == 96 + CHOOSE i \in DOMAIN FileLetters : FileLetters[i] = ch

\* parseInt(ch) of a digit
ParseInt(ch) == (CHOOSE i \in DOMAIN DigitChars : DigitChars[i] = ch) - 1

\* piece === piece.toUpperCase()
IsUpperCase(piece) == piece \in {"R", "N", "B", "Q", "K", "P"}

\* board[row][col] with the indexes of the code, which count from 0
At(board, row, col) == board[row + 1][col + 1]

isValidMove(board, from, to, playerColor) ==
    LET fromRow == ParseInt(from[2])
        fromCol == CharCodeAt(from[1]) - 97
        toRow == ParseInt(to[2])
        toCol == CharCodeAt(to[1]) - 97
    IN  IF \/ fromRow < 0 \/ fromRow > 7 \/ fromCol < 0 \/ fromCol > 7
           \/ toRow < 0 \/ toRow > 7 \/ toCol < 0 \/ toCol > 7
        THEN FALSE
        ELSE LET piece == At(board, 7 - fromRow, fromCol)
             IN  IF piece = Null THEN FALSE
                 ELSE (IF IsUpperCase(piece) THEN "white" ELSE "black") = playerColor

makeMove(board, from, to) ==
    LET fromRow == 7 - ParseInt(from[2])
        fromCol == CharCodeAt(from[1]) - 97
        toRow == 7 - ParseInt(to[2])
        toCol == CharCodeAt(to[1]) - 97
        placed == [board EXCEPT ![toRow + 1][toCol + 1] = At(board, fromRow, fromCol)]
    IN  [placed EXCEPT ![fromRow + 1][fromCol + 1] = Null]

isCheckmate(board, color) == FALSE

isStalemate(board, color) == FALSE

\* gameId is Date.now().toString(): the instant names the game
NewChessGame(gameId, creator, createdAt) ==
    [id |-> gameId, players |-> <<creator>>, board |-> initializeChessBoard,
     turn |-> "white", status |-> "waiting", moves |-> <<>>,
     createdAt |-> createdAt]

\* the four GET endpoints that list a container
GamesList(op, actor, games) ==
    \/ Denied(op, actor)
    \/ /\ Gate(actor) = 200
       /\ last' = Ran(op, actor, NoGame,
                      [games |-> {[id |-> games[g].id, status |-> games[g].status] :
                                     g \in DOMAIN games}],
                      200, <<>>)
       /\ ops' = ops + 1
       /\ UNCHANGED <<sessionStore, handshake, cacheVars, rooms, connVars, now,
                      gameVars, timers>>

ChessList(actor) == GamesList("chess/games", actor, chessGames)

LudoList(actor) == GamesList("ludo/games", actor, ludoGames)

TicTacToeList(actor) == GamesList("tictactoe/games", actor, ticTacToeGames)

UnoList(actor) == GamesList("uno/games", actor, unoGames)

ChessCreate(actor) ==
    \/ Denied("chess/create", actor)
    \/ /\ Gate(actor) = 200
       /\ chessGames' = Put(chessGames, now, NewChessGame(now, actor, now))
       /\ last' = Ran("chess/create", actor, now, NoArgs, 200, <<>>)
       /\ ops' = ops + 1
       /\ UNCHANGED <<sessionStore, handshake, cacheVars, rooms, connVars, now,
                      ludoGames, ticTacToeGames, unoGames, timers>>

ChessUpdate(op, actor, gameId, args, game, event, payload) ==
    /\ chessGames' = [chessGames EXCEPT ![gameId] = game]
    /\ last' = Ran(op, actor, gameId, args, 200,
                   <<Emit("gaming-room", event, payload)>>)
    /\ ops' = ops + 1
    /\ UNCHANGED <<sessionStore, handshake, cacheVars, rooms, connVars, now,
                   ludoGames, ticTacToeGames, unoGames, timers>>

ChessJoin(actor, gameId) ==
    LET op == "chess/join"
    IN  \/ Denied(op, actor)
        \/ /\ Gate(actor) = 200
           /\ IF gameId \notin DOMAIN chessGames
              THEN Answer(op, actor, gameId, 404)
              ELSE LET game == chessGames[gameId]
                       after == [game EXCEPT !.players = Push(@, actor),
                                             !.status = "playing"]
                   IN  IF Len(game.players) >= 2
                       THEN Answer(op, actor, gameId, 400)
                       ELSE IF actor \in Range(game.players)
                       THEN Answer(op, actor, gameId, 400)
                       ELSE ChessUpdate(op, actor, gameId, NoArgs, after,
                                "game-updated",
                                [gameId |-> gameId, game |-> after])

ChessMoved(game, actor, from, to) ==
    LET turned == [game EXCEPT
                      !.board = makeMove(@, from, to),
                      !.moves = Push(@, [from |-> from, to |-> to, player |-> actor,
                                         timestamp |-> now]),
                      !.turn = IF @ = "white" THEN "black" ELSE "white"]
        playerColor == game.turn
    IN  IF isCheckmate(turned.board, turned.turn)
        THEN [status |-> "finished", winner |-> playerColor] @@ turned
        ELSE IF isStalemate(turned.board, turned.turn)
        THEN [turned EXCEPT !.status = "draw"]
        ELSE turned

ChessMove(actor, gameId, from, to) ==
    LET op == "chess/move"
    IN  \/ Denied(op, actor)
        \/ /\ Gate(actor) = 200
           /\ IF gameId \notin DOMAIN chessGames
              THEN Answer(op, actor, gameId, 404)
              ELSE LET game == chessGames[gameId]
                       playerColor == IF game.players[1] = actor
                                      THEN "white" ELSE "black"
                       after == ChessMoved(game, actor, from, to)
                   IN  IF actor \notin Range(game.players)
                       THEN Answer(op, actor, gameId, 403)
                       ELSE IF game.turn # playerColor
                       THEN Answer(op, actor, gameId, 400)
                       ELSE IF isValidMove(game.board, from, to, playerColor)
                       THEN ChessUpdate(op, actor, gameId,
                                [from |-> from, to |-> to], after, "move-made",
                                [gameId |-> gameId,
                                 move |-> [from |-> from, to |-> to],
                                 game |-> after])
                       ELSE Answer(op, actor, gameId, 400)

-----------------------------------------------------------------------------
(* Rooms, the two caches and broadcastDataChange                            *)

\* socket.join(room)
JoinRoom(socket, room) ==
    /\ conns[socket] > 0
    /\ rooms' = [rooms EXCEPT ![socket.id] = @ \cup {room}]
    /\ last' = Ran("join-room", socket.username, NoGame, [room |-> room],
                   NoResponse, <<>>)
    /\ UNCHANGED <<sessionStore, handshake, cacheVars, connVars, now, gameVars,
                   timers, ops>>

\* socket.leave(room)
LeaveRoom(socket, room) ==
    /\ conns[socket] > 0
    /\ rooms' = [rooms EXCEPT ![socket.id] = @ \ {room}]
    /\ last' = Ran("leave-room", socket.username, NoGame, [room |-> room],
                   NoResponse, <<>>)
    /\ UNCHANGED <<sessionStore, handshake, cacheVars, connVars, now, gameVars,
                   timers, ops>>

JoinGaming(socket) ==
    /\ conns[socket] > 0
    /\ rooms' = [rooms EXCEPT ![socket.id] = @ \cup {"gaming-room"}]
    /\ last' = Ran("join-gaming", socket.username, NoGame, NoArgs, NoResponse, <<>>)
    /\ UNCHANGED <<sessionStore, handshake, cacheVars, connVars, now, gameVars,
                   timers, ops>>

LeaveGaming(socket) ==
    /\ conns[socket] > 0
    /\ rooms' = [rooms EXCEPT ![socket.id] = @ \ {"gaming-room"}]
    /\ last' = Ran("leave-gaming", socket.username, NoGame, NoArgs, NoResponse, <<>>)
    /\ UNCHANGED <<sessionStore, handshake, cacheVars, connVars, now, gameVars,
                   timers, ops>>

\* io.to(room).emit(...): the sockets that are in the room when it is emitted
Receivers(emit) == {id \in DOMAIN rooms : emit.to \in rooms[id]}

CACHE_DURATION == 60000
HOMEPAGE_CACHE_DURATION == 30000
DataCacheLimit == 50
HomepageCacheLimit == 20

\* a Map is the sequence of its entries in insertion order
MapHas(cache, key) == \E i \in DOMAIN cache : cache[i].key = key
MapGet(cache, key) == cache[CHOOSE i \in DOMAIN cache : cache[i].key = key]
MapDelete(cache, key) == SelectSeq(cache, LAMBDA entry : entry.key # key)

\* a Map in which writing a key it holds moves the key to the end
MapSetMovingToEnd(cache, key, value) ==
    Append(MapDelete(cache, key),
           [key |-> key, data |-> value.data, timestamp |-> value.timestamp])

\* Map.prototype.set: a key the map holds keeps its place
MapSet(cache, key, value) ==
    LET entry == [key |-> key, data |-> value.data, timestamp |-> value.timestamp]
    IN  IF MapHas(cache, key)
        THEN [i \in DOMAIN cache |-> IF cache[i].key = key THEN entry ELSE cache[i]]
        ELSE Append(cache, entry)

\* an entry that is still read at the moment its duration has passed
FreshInclusive(entry, duration) == now - entry.timestamp <= duration

\* Date.now() - cached.timestamp < duration
Fresh(entry, duration) == now - entry.timestamp < duration

\* what a get returns
Cached(cache, key, duration) ==
    IF MapHas(cache, key) /\ Fresh(MapGet(cache, key), duration)
    THEN MapGet(cache, key).data
    ELSE Null

\* the cache after a set: written, then cut back if it is over its limit
AfterSet(cache, key, data, limit) ==
    LET written == MapSet(cache, key, [data |-> data, timestamp |-> now])
    IN  IF Len(written) > limit THEN MapDelete(written, written[1].key) ELSE written

CacheCall(op, key, data, result) ==
    /\ last' = Ran(op, Undefined, NoGame,
                   [key |-> key, data |-> data, result |-> result],
                   NoResponse, <<>>)
    /\ UNCHANGED <<sessionStore, handshake, rooms, connVars, now, gameVars,
                   timers, ops>>

getCachedData(key) ==
    /\ CacheCall("getCachedData", key, Undefined,
                 Cached(dataCache, key, CACHE_DURATION))
    /\ UNCHANGED cacheVars

getHomepageCachedData(key) ==
    /\ CacheCall("getHomepageCachedData", key, Undefined,
                 Cached(homepageCache, key, HOMEPAGE_CACHE_DURATION))
    /\ UNCHANGED cacheVars

setCachedData(key, data) ==
    /\ dataCache' = AfterSet(dataCache, key, data, DataCacheLimit)
    /\ CacheCall("setCachedData", key, data, Undefined)
    /\ UNCHANGED homepageCache

setHomepageCachedData(key, data) ==
    /\ homepageCache' = AfterSet(homepageCache, key, data, HomepageCacheLimit)
    /\ CacheCall("setHomepageCachedData", key, data, Undefined)
    /\ UNCHANGED dataCache

\* a data change that empties both caches
broadcastDataChangeClearing(type, action, data, financialYear) ==
    /\ dataCache' = <<>>
    /\ homepageCache' = <<>>
    /\ last' = Ran("broadcastDataChange", Undefined, NoGame,
                   [type |-> type, action |-> action, data |-> data,
                    financialYear |-> financialYear],
                   NoResponse,
                   <<Emit(type \o "-" \o financialYear, "data-change",
                          [type |-> type, action |-> action, data |-> data,
                           timestamp |-> now])>>)
    /\ UNCHANGED <<sessionStore, handshake, rooms, connVars, now, gameVars,
                   timers, ops>>

\* the event's timestamp is the instant of the call
broadcastDataChange(type, action, data, financialYear) ==
    LET room == type \o "-" \o financialYear
        homepageCacheKey == "public-" \o type \o "-" \o financialYear
    IN  /\ dataCache' = MapDelete(MapDelete(dataCache, room),
                                  "dashboard-overview-" \o financialYear)
        /\ homepageCache' = MapDelete(homepageCache, homepageCacheKey)
        /\ last' = Ran("broadcastDataChange", Undefined, NoGame,
                       [type |-> type, action |-> action, data |-> data,
                        financialYear |-> financialYear],
                       NoResponse,
                       <<Emit(room, "data-change",
                              [type |-> type, action |-> action, data |-> data,
                               timestamp |-> now])>>)
        /\ UNCHANGED <<sessionStore, handshake, rooms, connVars, now, gameVars,
                       timers, ops>>

\* the entries the cleanup interval leaves in a cache
Unexpired(cache, duration) ==
    SelectSeq(cache, LAMBDA entry : ~(entry.timestamp < now - duration))

-----------------------------------------------------------------------------
(* Deferred work: setTimeout callbacks, the cleanup interval, the clock     *)

GraceMs == 300000

Container(name) ==
    CASE name = "chess" -> chessGames
      [] name = "ludo" -> ludoGames
      [] name = "tictactoe" -> ticTacToeGames
      [] name = "uno" -> unoGames

\* setTimeout(() => container.delete(gameId), 300000)
AfterDelete(name, container, gameId) ==
    IF name = container THEN Remove(Container(name), {gameId}) ELSE Container(name)

\* the callback ludo/roll schedules: the roller's player object and the roll
\* are the closure's, the current player is read when it runs
LudoAutoAdvance(game, roller, diceRoll) ==
    IF game.players[roller + 1].isComputer
       \/ getValidMoves(game, game.currentPlayerIndex, diceRoll) = {}
    THEN [game EXCEPT
             !.currentPlayerIndex = (@ + 1) % Len(game.players),
             !.diceRolled = FALSE,
             !.lastDiceRoll = NullRoll]
    ELSE game

\* callbacks with the same delay run in the order they were scheduled
Due(i) == \A j \in 1..(i - 1) : timers[j].kind # timers[i].kind

WithoutTimer(i) == SubSeq(timers, 1, i - 1) \o SubSeq(timers, i + 1, Len(timers))

TimerFire(i) ==
    LET t == timers[i]
    IN  /\ Due(i)
        /\ t.kind = "delete" => now >= t.at
        /\ IF t.kind = "delete"
           THEN /\ chessGames' = AfterDelete("chess", t.container, t.gameId)
                /\ ludoGames' = AfterDelete("ludo", t.container, t.gameId)
                /\ ticTacToeGames' = AfterDelete("tictactoe", t.container, t.gameId)
                /\ unoGames' = AfterDelete("uno", t.container, t.gameId)
                /\ timers' = DropTimers(WithoutTimer(i), t.container, {t.gameId})
           ELSE /\ ludoGames' = [ludoGames EXCEPT ![t.gameId] =
                                    LudoAutoAdvance(@, t.roller, t.diceRoll)]
                /\ timers' = WithoutTimer(i)
                /\ UNCHANGED <<chessGames, ticTacToeGames, unoGames>>
        /\ last' = Ran("timeout", Undefined, t.gameId, [kind |-> t.kind],
                       NoResponse, <<>>)
        /\ UNCHANGED <<sessionStore, handshake, cacheVars, rooms, connVars, now, ops>>

\* a cleanup that deletes by age alone
SweptByAge(games) ==
    {g \in DOMAIN games : games[g].createdAt < now - GraceMs}

\* the games the cleanup interval deletes from one container
Swept(games) ==
    {g \in DOMAIN games :
        games[g].status = "abandoned" /\ games[g].createdAt < now - GraceMs}

\* setInterval(..., 60000): the games and the caches; every run is an
\* event of its own (it logs), so two runs in a row are told apart
Sweep ==
    /\ chessGames' = Remove(chessGames, Swept(chessGames))
    /\ ludoGames' = Remove(ludoGames, Swept(ludoGames))
    /\ ticTacToeGames' = Remove(ticTacToeGames, Swept(ticTacToeGames))
    /\ unoGames' = Remove(unoGames, Swept(unoGames))
    /\ timers' = DropTimers(timers, "ludo", Swept(ludoGames))
    /\ dataCache' = Unexpired(dataCache, CACHE_DURATION)
    /\ homepageCache' = Unexpired(homepageCache, HOMEPAGE_CACHE_DURATION)
    /\ last' = Ran("cleanup", Undefined, NoGame,
                   [again |-> last.op = "cleanup" /\ ~last.args.again],
                   NoResponse, <<>>)
    /\ UNCHANGED <<sessionStore, handshake, rooms, connVars, now, ops>>

\* time passes
Tick(ms) ==
    /\ now' = now + ms
    /\ UNCHANGED <<sessionStore, handshake, cacheVars, rooms, connVars, gameVars, timers, last, ops>>


-----------------------------------------------------------------------------
(* Initial state and specifications                                         *)

Sockets == {Socket("sock-alice", "alice", FALSE), Socket("sock-bob", "bob", FALSE),
            Socket("sock-home", "dave", TRUE)}

EmptyMap == [x \in {} |-> x]

Init ==
    /\ sessionStore = [sid \in SessionIds |-> NoSession]
    /\ handshake = [ran |-> FALSE, cookieHeader |-> NoHeader, err |-> FALSE,
                    store |-> [sid \in SessionIds |-> NoSession],
                    result |-> Refuse("none")]
    /\ activeConnections = 0
    /\ homepageConnections = 0
    /\ authenticatedConnections = 0
    /\ conns = [s \in Sockets |-> 0]
    /\ now = 0
    /\ chessGames = EmptyMap
    /\ ludoGames = EmptyMap
    /\ ticTacToeGames = EmptyMap
    /\ unoGames = EmptyMap
    /\ timers = <<>>
    /\ last = Ran("none", Undefined, NoGame, NoArgs, NoResponse, <<>>)
    /\ ops = 0
    /\ dataCache = <<>>
    /\ homepageCache = <<>>
    /\ rooms = [id \in {socket.id : socket \in Sockets} |-> {}]

\* Handshakes: each with the reading the session bridge is documented to give it
HandshakeCases ==
    {[cookieHeader |-> NoHeader, kind |-> "nocookie", sid |-> <<>>]} \cup
    {
     \* (empty string)
     [cookieHeader |-> <<>>,
      kind |-> "nocookie", sid |-> <<>>],
     \* theme=dark
     [cookieHeader |-> <<"t", "h", "e", "m", "e", "=", "d", "a", "r", "k">>,
      kind |-> "nosid", sid |-> <<>>],
     \* sid
     [cookieHeader |-> <<"s", "i", "d">>,
      kind |-> "nosid", sid |-> <<>>],
     \* sid=
     [cookieHeader |-> <<"s", "i", "d", "=">>,
      kind |-> "nosid", sid |-> <<>>],
     \* SID=s:a.x
     [cookieHeader |-> <<"S", "I", "D", "=", "s", ":", "a", ".", "x">>,
      kind |-> "nosid", sid |-> <<>>],
     \* sid=a.x
     [cookieHeader |-> <<"s", "i", "d", "=", "a", ".", "x">>,
      kind |-> "badprefix", sid |-> <<>>],
     \* sid=s:a.x; sid=zz
     [cookieHeader |-> <<"s", "i", "d", "=", "s", ":", "a", ".", "x", ";", " ",
                         "s", "i", "d", "=", "z", "z">>,
      kind |-> "badprefix", sid |-> <<>>],
     \* sid=s:.x
     [cookieHeader |-> <<"s", "i", "d", "=", "s", ":", ".", "x">>,
      kind |-> "emptyid", sid |-> <<>>],
     \* sid=s:
     [cookieHeader |-> <<"s", "i", "d", "=", "s", ":">>,
      kind |-> "emptyid", sid |-> <<>>],
     \* sid=s:%
     [cookieHeader |-> <<"s", "i", "d", "=", "s", ":", "%">>,
      kind |-> "baduri", sid |-> <<>>],
     \* sid=s:a.x
     [cookieHeader |-> <<"s", "i", "d", "=", "s", ":", "a", ".", "x">>,
      kind |-> "valid", sid |-> <<"a">>],
     \* sid=s%3Aa.x
     [cookieHeader |-> <<"s", "i", "d", "=", "s", "%", "3", "A", "a", ".", "x">>,
      kind |-> "valid", sid |-> <<"a">>],
     \* theme=dark; sid=s:b.x
     [cookieHeader |-> <<"t", "h", "e", "m", "e", "=", "d", "a", "r", "k", ";", " ",
                         "s", "i", "d", "=", "s", ":", "b", ".", "x">>,
      kind |-> "valid", sid |-> <<"b">>],
     \* sid=s:b
     [cookieHeader |-> <<"s", "i", "d", "=", "s", ":", "b">>,
      kind |-> "valid", sid |-> <<"b">>],
     \* sid=s:c.x   (an id the store never held)
     [cookieHeader |-> <<"s", "i", "d", "=", "s", ":", "c", ".", "x">>,
      kind |-> "valid", sid |-> <<"c">>]
    }

CookieHeaders == {c.cookieHeader : c \in HandshakeCases}

NextAuth ==
    \/ \E sid \in SessionIds, value \in SessionValues : StoreSet(sid, value)
    \/ \E cookieHeader \in CookieHeaders, err \in BOOLEAN : Handshake(cookieHeader, err)

SpecAuth == Init /\ [][NextAuth]_vars

ConnSockets == {Socket("sock-alice", "alice", FALSE), Socket("sock-home", "dave", TRUE)}

NextConn ==
    \/ \E socket \in ConnSockets : Connect(socket)
    \/ \E socket \in ConnSockets : Disconnect(socket)

SpecConn == Init /\ [][NextConn]_vars

MaxOps == 5
MaxSoloOps == 8
MaxSockets == 1

Gamers == {u \in Users : UserRole[u] = "gamer"}
GameIds == {0, 1}
\* Math.floor(Math.random() * 6) + 1
Die == 1..6
RollInputs == {1, 6}
\* the roll a ludo-move message carries is the client's: a face below 6, a 6,
\* and a number no die shows
MoveRolls == {1, 6, 56}
PlayerCounts == {2, 3}
GameModes == {Undefined}
Difficulties == {Undefined}

\* the ludo requests of the given actors and the channel messages of the given
\* sockets, while fewer than limit requests have been accepted
LudoRequest(actors, sockets, pieceIndexes, limit) ==
    \/ \E actor \in actors : ops < limit /\ LudoCreate(actor)
    \/ \E actor \in actors, gameId \in GameIds : ops < limit /\ LudoJoin(actor, gameId)
    \/ \E actor \in actors, gameId \in GameIds, playerCount \in PlayerCounts,
          addComputer \in BOOLEAN, gameMode \in GameModes, difficulty \in Difficulties :
            /\ ops < limit
            /\ LudoStart(actor, gameId, playerCount, addComputer, gameMode, difficulty)
    \/ \E actor \in actors, gameId \in GameIds, diceRoll \in RollInputs :
            ops < limit /\ LudoRoll(actor, gameId, diceRoll)
    \/ \E socket \in sockets, gameId \in GameIds, pieceIndex \in pieceIndexes,
          diceRoll \in MoveRolls :
            ops < limit /\ LudoMove(socket, gameId, pieceIndex, diceRoll)

Background(sockets) ==
    \/ \E socket \in sockets : conns[socket] < MaxSockets /\ Connect(socket)
    \/ \E socket \in sockets : Disconnect(socket)
    \/ \E i \in DOMAIN timers : TimerFire(i)
    \/ Sweep

GameSockets == {Socket("sock-alice", "alice", FALSE), Socket("sock-bob", "bob", FALSE)}

NextLudo ==
    \/ LudoRequest({"alice", "bob", "dave", Undefined}, GameSockets, {0, 3}, MaxOps)
    \/ Background(GameSockets)

SpecLudo == Init /\ [][NextLudo]_vars

\* one gamer alone, for the long runs
SoloSockets == {Socket("sock-alice", "alice", FALSE)}

NextLudoSolo ==
    \/ LudoRequest({"alice", "dave"}, SoloSockets, {0}, MaxSoloOps)
    \/ Background(SoloSockets)

SpecLudoSolo == Init /\ [][NextLudoSolo]_vars


MaxFairOps == 3
\* the moments the clock is read at: the start, a millisecond later, and when
\* a match created at either is older than the grace window
ClockTimes == {1, GraceMs + 1, GraceMs + 2}

Clock == \E t \in ClockTimes : t > now /\ Tick(t - now)

NextLudoFair ==
    \/ LudoRequest({"alice", "dave"}, SoloSockets, {0}, MaxFairOps)
    \/ Background(SoloSockets)
    \/ Clock

\* the interval and the timeouts do run, and time does pass
SpecLudoFair ==
    /\ Init /\ [][NextLudoFair]_vars
    /\ WF_vars(Sweep)
    /\ WF_vars(\E i \in DOMAIN timers : TimerFire(i))
    /\ WF_vars(Clock)

MaxUnoOps == 4

\* what Math.random() gives a shuffle: always just below 1 (every card stays
\* where it is), always 0, or a first value that swaps the last card of the
\* new deck with the one at index 93, the card that is on top after two hands
\* are dealt, and values just below 1 after it
RandomStreams ==
    {[head |-> <<>>, rest |-> [num |-> 999, den |-> 1000]],
     [head |-> <<>>, rest |-> [num |-> 0, den |-> 1]],
     [head |-> <<[num |-> 93, den |-> 108]>>, rest |-> [num |-> 999, den |-> 1000]]}

CardIndexes == {-1, 0, 1, 6, 7}
ChosenColors == {Undefined, "blue"}
UnoActors == {"alice", "bob", "carol", "dave", Undefined}

UnoRequest(limit) ==
    \/ \E actor \in UnoActors : ops < limit /\ UnoCreate(actor)
    \/ \E actor \in UnoActors, gameId \in GameIds, stream \in RandomStreams :
            ops < limit /\ UnoJoin(actor, gameId, stream)
    \/ \E actor \in UnoActors, gameId \in GameIds, cardIndex \in CardIndexes,
          chosenColor \in ChosenColors :
            ops < limit /\ UnoPlayCard(actor, gameId, cardIndex, chosenColor)
    \/ \E actor \in UnoActors, gameId \in GameIds, stream \in RandomStreams :
            ops < limit /\ UnoDrawCard(actor, gameId, stream)

NextUno == UnoRequest(MaxUnoOps)

SpecUno == Init /\ [][NextUno]_vars


MaxGridOps == 5
MaxGridDeepOps == 11
Positions == 0..9
GridActors == {"alice", "bob", "carol", "dave", Undefined}

TicTacToeRequest(actors, gameIds, positions, limit) ==
    \/ \E actor \in actors : ops < limit /\ TicTacToeCreate(actor)
    \/ \E actor \in actors, gameId \in gameIds :
            ops < limit /\ TicTacToeJoin(actor, gameId)
    \/ \E actor \in actors, gameId \in gameIds, position \in positions :
            ops < limit /\ TicTacToeMove(actor, gameId, position)

NextGrid == TicTacToeRequest(GridActors, GameIds, Positions, MaxGridOps)

SpecGrid == Init /\ [][NextGrid]_vars

\* two gamers and the one match, for the games played to the end
NextGridDeep == TicTacToeRequest({"alice", "bob"}, {0}, 0..8, MaxGridDeepOps)

SpecGridDeep == Init /\ [][NextGridDeep]_vars

\* the caches against the clock: instants on both sides of each duration
CacheTimes == {1, HOMEPAGE_CACHE_DURATION, HOMEPAGE_CACHE_DURATION + 1,
               CACHE_DURATION, CACHE_DURATION + 1, 2 * CACHE_DURATION + 2}

CacheKeys == {"supply-2025", "demand-2025"}

HomepageCacheKeys == {"public-supply-2025"}

CacheData == {"v1", "v2"}

NextCache ==
    \/ \E key \in CacheKeys : getCachedData(key)
    \/ \E key \in CacheKeys, data \in CacheData : setCachedData(key, data)
    \/ \E key \in HomepageCacheKeys : getHomepageCachedData(key)
    \/ \E key \in HomepageCacheKeys, data \in CacheData :
          setHomepageCachedData(key, data)
    \/ Sweep
    \/ \E t \in CacheTimes : t > now /\ Tick(t - now)

SpecCache == Init /\ [][NextCache]_vars

\* the caches against their limits: one key more than a cache may hold, each
\* cache filled while the other is small, at most MaxRewritten entries written
\* a second time
MaxInterleaved == 1

MaxRewritten == 1

NumberedKeys == [i \in 1..(DataCacheLimit + 1) |-> "key-" \o ToString(i)]

KeyOf(i) == NumberedKeys[i]

MapKeys(cache) == {cache[i].key : i \in DOMAIN cache}

\* the first numbered key the cache does not hold
NextKey(cache, limit) ==
    LET held == MapKeys(cache)
        free == {i \in 1..(limit + 1) : KeyOf(i) \notin held}
    IN  KeyOf(CHOOSE i \in free : \A j \in free : i <= j)

\* the keys a call is made with: a key the cache lacks, its oldest, its newest
CallKeys(cache, limit) ==
    {NextKey(cache, limit)}
        \cup (IF cache = <<>> THEN {} ELSE {cache[1].key, cache[Len(cache)].key})

Rewritten(cache) == Cardinality({i \in DOMAIN cache : cache[i].data = "v2"})

\* a first write stores v1, a second write stores v2
SetInputs(cache, limit) ==
    {<<NextKey(cache, limit), "v1">>}
        \cup {<<cache[i].key, "v2">> : i \in {j \in {1, Len(cache)} :
                 /\ j \in DOMAIN cache
                 /\ cache[j].data = "v1"
                 /\ Rewritten(cache) < MaxRewritten}}

NextCacheBound ==
    \/ \E key \in CallKeys(dataCache, DataCacheLimit) : getCachedData(key)
    \/ \E input \in SetInputs(dataCache, DataCacheLimit) :
          /\ Len(homepageCache) <= MaxInterleaved
          /\ setCachedData(input[1], input[2])
    \/ \E key \in CallKeys(homepageCache, HomepageCacheLimit) :
          getHomepageCachedData(key)
    \/ \E input \in SetInputs(homepageCache, HomepageCacheLimit) :
          /\ Len(dataCache) <= MaxInterleaved
          /\ setHomepageCachedData(input[1], input[2])

SpecCacheBound == Init /\ [][NextCacheBound]_vars

\* data changes against the caches and the rooms
DataTypes == {"supply", "demand"}

FinancialYears == {"2025"}

BroadcastCacheKeys == {"supply-2025", "dashboard-overview-2025", "demand-2025"}

BroadcastHomepageKeys == {"public-supply-2025", "public-demand-2025"}

DataRooms == {"supply-2025", "demand-2025"}

Subscribers == {socket \in Sockets : socket.username \in {"alice", "bob"}}

NextBroadcast ==
    \/ \E socket \in Subscribers : conns[socket] < MaxSockets /\ Connect(socket)
    \/ \E socket \in Subscribers : Disconnect(socket)
    \/ \E socket \in Subscribers, room \in DataRooms : JoinRoom(socket, room)
    \/ \E socket \in Subscribers, room \in DataRooms : LeaveRoom(socket, room)
    \/ \E socket \in Subscribers : JoinGaming(socket)
    \/ \E socket \in Subscribers : LeaveGaming(socket)
    \/ \E key \in BroadcastCacheKeys : setCachedData(key, "v1")
    \/ \E key \in BroadcastHomepageKeys : setHomepageCachedData(key, "v1")
    \/ \E type \in DataTypes, financialYear \in FinancialYears :
          broadcastDataChange(type, "update", "v2", financialYear)

SpecBroadcast == Init /\ [][NextBroadcast]_vars

\* the request/response surface of the four variants together
MaxGamesOps == 3

HttpActors == {"alice", "bob", "dave", Undefined}

\* a white pawn, an empty square, a black pawn, a column and a row off the board
Squares == {<<"e", "1">>, <<"e", "3">>, <<"e", "6">>, <<"i", "1">>, <<"e", "8">>}

\* where a move goes: an empty square, the white pawn's own square, off the board
Targets == {<<"e", "3">>, <<"e", "1">>, <<"e", "8">>}

ChessRequest(actors, limit) ==
    \/ \E actor \in actors : ops < limit /\ ChessList(actor)
    \/ \E actor \in actors : ops < limit /\ ChessCreate(actor)
    \/ \E actor \in actors, gameId \in GameIds : ops < limit /\ ChessJoin(actor, gameId)
    \/ \E actor \in actors, gameId \in GameIds, from \in Squares, to \in Targets :
            ops < limit /\ ChessMove(actor, gameId, from, to)

ListRequest(actors, limit) ==
    \/ \E actor \in actors : ops < limit /\ LudoList(actor)
    \/ \E actor \in actors : ops < limit /\ TicTacToeList(actor)
    \/ \E actor \in actors : ops < limit /\ UnoList(actor)

LudoHttpRequest(actors, limit) ==
    \/ \E actor \in actors : ops < limit /\ LudoCreate(actor)
    \/ \E actor \in actors, gameId \in GameIds : ops < limit /\ LudoJoin(actor, gameId)
    \/ \E actor \in actors, gameId \in GameIds, playerCount \in PlayerCounts,
          addComputer \in BOOLEAN, gameMode \in GameModes, difficulty \in Difficulties :
            /\ ops < limit
            /\ LudoStart(actor, gameId, playerCount, addComputer, gameMode, difficulty)
    \/ \E actor \in actors, gameId \in GameIds, diceRoll \in RollInputs :
            ops < limit /\ LudoRoll(actor, gameId, diceRoll)

UnoHttpRequest(actors, limit) ==
    \/ \E actor \in actors : ops < limit /\ UnoCreate(actor)
    \/ \E actor \in actors, gameId \in GameIds, stream \in RandomStreams :
            ops < limit /\ UnoJoin(actor, gameId, stream)
    \/ \E actor \in actors, gameId \in GameIds, cardIndex \in CardIndexes,
          chosenColor \in ChosenColors :
            ops < limit /\ UnoPlayCard(actor, gameId, cardIndex, chosenColor)
    \/ \E actor \in actors, gameId \in GameIds, stream \in RandomStreams :
            ops < limit /\ UnoDrawCard(actor, gameId, stream)

NextGames ==
    \/ ChessRequest(HttpActors, MaxGamesOps)
    \/ ListRequest(HttpActors, MaxGamesOps)
    \/ LudoHttpRequest(HttpActors, MaxGamesOps)
    \/ TicTacToeRequest(HttpActors, GameIds, {0, 9}, MaxGamesOps)
    \/ UnoHttpRequest(HttpActors, MaxGamesOps)
    \/ \E socket \in SoloSockets : conns[socket] < MaxSockets /\ Connect(socket)
    \/ \E socket \in SoloSockets, gameId \in GameIds, diceRoll \in RollInputs :
            ops < MaxGamesOps /\ LudoMove(socket, gameId, 0, diceRoll)
    \/ \E i \in DOMAIN timers : TimerFire(i)

SpecGames == Init /\ [][NextGames]_vars

\* one chess match of two gamers, a gamer who is no player and a viewer
MaxChessOps == 5

\* where a chess move goes: an empty square, each pawn's own square, off the board
ChessTargets == Targets \cup {<<"e", "6">>}

NextChess ==
    \/ \E actor \in {"alice", "bob"} : ops < MaxChessOps /\ ChessList(actor)
    \/ ops < MaxChessOps /\ chessGames = EmptyMap /\ ChessCreate("alice")
    \/ \E actor \in {"alice", "bob", "carol"} : ops < MaxChessOps /\ ChessJoin(actor, 0)
    \/ \E actor \in {"alice", "bob", "carol", "dave"}, from \in Squares,
          to \in ChessTargets :
            ops < MaxChessOps /\ ChessMove(actor, 0, from, to)

SpecChess == Init /\ [][NextChess]_vars

\* the grid match played until it is won, and among the first requests a match
\* of the other variants, while the clock reaches and passes the grace window
\* and the cleanup interval runs
MaxSweepOps == 7
MaxOpeningOps == 2

\* five minutes after the start exactly, and a millisecond later
SweepTimes == {GraceMs, GraceMs + 1}

SweepIds == {0} \cup SweepTimes

NextSweep ==
    \/ ops < MaxOpeningOps /\ chessGames = EmptyMap /\ ChessCreate("alice")
    \/ ops < MaxOpeningOps /\ ludoGames = EmptyMap /\ LudoCreate("alice")
    \/ \E gameId \in SweepIds :
            ops < MaxOpeningOps
                /\ LudoStart("alice", gameId, 2, TRUE, Undefined, Undefined)
    \/ ops < MaxOpeningOps /\ unoGames = EmptyMap /\ UnoCreate("alice")
    \/ ops < MaxSweepOps /\ ticTacToeGames = EmptyMap /\ TicTacToeCreate("alice")
    \/ \E gameId \in SweepIds : ops < MaxSweepOps /\ TicTacToeJoin("bob", gameId)
    \/ \E actor \in {"alice", "bob"}, gameId \in SweepIds, position \in 0..4 :
            ops < MaxSweepOps /\ TicTacToeMove(actor, gameId, position)
    \/ \E socket \in SoloSockets : conns[socket] < 1 /\ Connect(socket)
    \/ \E socket \in SoloSockets : Disconnect(socket)
    \/ Sweep
    \/ \E t \in SweepTimes : t > now /\ Tick(t - now)

SpecSweep == Init /\ [][NextSweep]_vars

\* one card match played further: one deal (the shuffle that leaves the deck as
\* built), every index of a hand, a wild played as yellow or green
MaxUnoDeepOps == 6

IdentityStream == [head |-> <<>>, rest |-> [num |-> 999, den |-> 1000]]

HandIndexes == 0..7

UnoTable(joiners, players, drawers, cardIndexes, chosenColors, limit) ==
    \/ ops < limit /\ unoGames = EmptyMap /\ UnoCreate("alice")
    \/ \E actor \in joiners : ops < limit /\ UnoJoin(actor, 0, IdentityStream)
    \/ \E actor \in players, cardIndex \in cardIndexes, chosenColor \in chosenColors :
            ops < limit /\ UnoPlayCard(actor, 0, cardIndex, chosenColor)
    \/ \E actor \in drawers : ops < limit /\ UnoDrawCard(actor, 0, IdentityStream)

NextUnoDeep ==
    UnoTable({"bob", "carol"}, {"alice", "bob", "carol"}, {"alice", "bob", "carol"},
             HandIndexes, {"yellow", "green"}, MaxUnoDeepOps)

SpecUnoDeep == Init /\ [][NextUnoDeep]_vars

\* a card match of two drawn until the deck runs out: cards are played only
\* once the deck holds at most MaxDeckToPlay cards
MaxUnoDrainOps == 96

MaxDeckToPlay == 2

NextUnoDrain ==
    \/ ops < MaxUnoDrainOps /\ unoGames = EmptyMap /\ UnoCreate("alice")
    \/ ops < MaxUnoDrainOps /\ UnoJoin("bob", 0, IdentityStream)
    \/ \E actor \in {"alice", "bob"} :
            ops < MaxUnoDrainOps /\ UnoDrawCard(actor, 0, IdentityStream)
    \/ \E actor \in {"alice", "bob"}, cardIndex \in HandIndexes :
            /\ ops < MaxUnoDrainOps
            /\ 0 \in DOMAIN unoGames
            /\ Len(unoGames[0].deck) <= MaxDeckToPlay
            /\ UnoPlayCard(actor, 0, cardIndex, "yellow")

SpecUnoDrain == Init /\ [][NextUnoDrain]_vars

\* a card match of two played to its end: alice only draws, bob only plays
MaxUnoWinOps == 14

NextUnoWin ==
    UnoTable({"bob"}, {"bob"}, {"alice"}, HandIndexes \cup {-1},
             {Undefined, "green"}, MaxUnoWinOps)

SpecUnoWin == Init /\ [][NextUnoWin]_vars

\* a run plays a card match or a race match: the card match of SpecUnoDeep, or
\* the race matches of SpecLudo with their connections, callbacks and interval
NextTurns ==
    \/ /\ ludoGames = EmptyMap
       /\ UnoTable({"bob", "carol"}, {"alice", "bob", "carol"},
                   {"alice", "bob", "carol"}, HandIndexes, {"yellow", "green"},
                   MaxUnoDeepOps)
    \/ /\ unoGames = EmptyMap
       /\ LudoRequest({"alice", "bob"}, GameSockets, {0, 3}, MaxOps)
    \/ /\ ludoGames # EmptyMap
       /\ Background(GameSockets)

SpecTurns == Init /\ [][NextTurns]_vars

\* a race match of one gamer whose first piece stands anywhere from home to
\* the goal (a roll of 6 and one move took it there), her connection open; she
\* rolls and moves with every face of the die
MaxTrackOps == 2

TrackPositions == Home..Goal

RaceAt(position) ==
    [NewLudoGame(0, "alice", 0) EXCEPT
        !.maxPlayers = 2,
        !.gameMode = "multi",
        !.status = "playing",
        !.board = "Array(52)",
        !.players[1].pieces[1].position = position,
        !.players[1].piecesInGoal = IF position = Goal THEN 1 ELSE 0]

InitTrack ==
    /\ sessionStore = [sid \in SessionIds |-> NoSession]
    /\ handshake = [ran |-> FALSE, cookieHeader |-> NoHeader, err |-> FALSE,
                    store |-> [sid \in SessionIds |-> NoSession],
                    result |-> Refuse("none")]
    /\ activeConnections = 1
    /\ homepageConnections = 0
    /\ authenticatedConnections = 1
    /\ conns = [s \in Sockets |-> IF s \in SoloSockets THEN 1 ELSE 0]
    /\ now = 0
    /\ chessGames = EmptyMap
    /\ \E position \in TrackPositions : ludoGames = Put(EmptyMap, 0, RaceAt(position))
    /\ ticTacToeGames = EmptyMap
    /\ unoGames = EmptyMap
    /\ timers = <<>>
    /\ last = Ran("none", Undefined, NoGame, NoArgs, NoResponse, <<>>)
    /\ ops = 0
    /\ dataCache = <<>>
    /\ homepageCache = <<>>
    /\ rooms = [id \in {socket.id : socket \in Sockets} |-> {}]

NextTrack ==
    \/ \E diceRoll \in Die : ops < MaxTrackOps /\ LudoRoll("alice", 0, diceRoll)
    \/ \E socket \in SoloSockets, pieceIndex \in 0..3, diceRoll \in Die :
            ops < MaxTrackOps /\ LudoMove(socket, 0, pieceIndex, diceRoll)
    \/ \E i \in DOMAIN timers : TimerFire(i)

SpecTrack == InitTrack /\ [][NextTrack]_vars

\* three gamers take seats in one race match and one card match
MaxSeatsOps == 4

NextSeats ==
    \/ ops < MaxSeatsOps /\ ludoGames = EmptyMap /\ LudoCreate("alice")
    \/ \E actor \in {"alice", "bob", "carol"} :
            ops < MaxSeatsOps /\ LudoJoin(actor, 0)
    \/ \E actor \in {"alice", "bob"}, playerCount \in PlayerCounts,
          addComputer \in BOOLEAN :
            ops < MaxSeatsOps
                /\ LudoStart(actor, 0, playerCount, addComputer, Undefined, Undefined)
    \/ ops < MaxSeatsOps /\ unoGames = EmptyMap /\ UnoCreate("alice")
    \/ \E actor \in {"alice", "bob", "carol"} :
            ops < MaxSeatsOps /\ UnoJoin(actor, 0, IdentityStream)

SpecSeats == Init /\ [][NextSeats]_vars

-----------------------------------------------------------------------------
(* Claims                                                                   *)

TheCase == CHOOSE c \in HandshakeCases : c.cookieHeader = handshake.cookieHeader

\* in the store the middleware consulted
Resolves(sid) ==
    /\ sid \in SessionIds
    /\ handshake.store[sid] # NoSession
    /\ handshake.store[sid].user # NoUser

ExpectedError ==
    [nocookie |-> "Authentication required: No cookies found",
     nosid |-> "Authentication required: Session cookie missing",
     badprefix |-> "Authentication required: Invalid session cookie format",
     emptyid |-> "Authentication required: Invalid session ID",
     baduri |-> "URIError: URI malformed",
     valid |-> "Authentication required: Session not found or expired"]

Dropped == \E i \in DOMAIN last.emits : last.emits[i].event = "server-overload"

\* C8: a connection that would take activeConnections above 300 is sent
\* server-overload with the retry hint and disconnected, and the three
\* counters are back at their values from before it; one arriving while fewer
\* than 300 are active is admitted; the counter never exceeds 300.
C8_Capacity ==
    /\ activeConnections <= maxConnections
    /\ last.op = "connection" =>
          LET before == last.args.before
          IN  /\ Dropped <=> before.active + 1 > maxConnections
              /\ Dropped =>
                    /\ Counters = before
                    /\ last.emits =
                          <<Emit("sock-alice", "server-overload", [retryAfter |-> 30000]),
                            Emit("sock-alice", "disconnect", NoArgs)>>
                       \/ last.emits =
                          <<Emit("sock-home", "server-overload", [retryAfter |-> 30000]),
                            Emit("sock-home", "disconnect", NoArgs)>>
              /\ before.active < 300 =>
                    /\ ~Dropped
                    /\ activeConnections = before.active + 1
                    /\ homepageConnections + authenticatedConnections
                          = before.homepage + before.authenticated + 1

C8_Witness ==
    /\ last.op = "connection"
    /\ last.args.before.active = 300
    /\ Dropped
    /\ activeConnections = 300

\* the data a cache holds for a key and may still hand out, Null if none
Readable(cache, key, ttl) ==
    IF \E i \in DOMAIN cache : cache[i].key = key /\ now - cache[i].timestamp < ttl
    THEN (CHOOSE entry \in Range(cache) : entry.key = key).data
    ELSE Null

\* C13: in both caches a get returns the stored value exactly while
\* now - timestamp is below the duration (60 s, 30 s for the public cache) and
\* absent otherwise, a get changes no entry, and a get of the key just set, at
\* the same instant, returns the value that was set.  (The clock is the only
\* step that moves now, and it leaves last alone.)
C13_CacheReadWrite ==
    [][/\ last'.op = "getCachedData" /\ now' = now =>
            /\ cacheVars' = cacheVars
            /\ last'.args.result = Readable(dataCache, last'.args.key, 60000)
       /\ last'.op = "getHomepageCachedData" /\ now' = now =>
            /\ cacheVars' = cacheVars
            /\ last'.args.result = Readable(homepageCache, last'.args.key, 30000)
       /\ /\ last.op = "setCachedData"
          /\ last'.op = "getCachedData" /\ now' = now
          /\ last'.args.key = last.args.key
          /\ \E entry \in Range(dataCache) :
                entry.key = last.args.key /\ entry.timestamp = now
          => last'.args.result = last.args.data
       /\ /\ last.op = "setHomepageCachedData"
          /\ last'.op = "getHomepageCachedData" /\ now' = now
          /\ last'.args.key = last.args.key
          /\ \E entry \in Range(homepageCache) :
                entry.key = last.args.key /\ entry.timestamp = now
          => last'.args.result = last.args.data]_vars

\* a get of the public cache answered absent for an entry that is still stored,
\* exactly 30 s old
C13_Witness ==
    /\ last.op = "getHomepageCachedData"
    /\ last.args.result = Null
    /\ \E entry \in Range(homepageCache) :
          /\ entry.key = last.args.key
          /\ now - entry.timestamp = 30000

\* what a set of key with data must make of a cache with the given limit
SetWithin(cache, key, data, limit) ==
    LET entry == [key |-> key, data |-> data, timestamp |-> now]
    IN  IF \E i \in DOMAIN cache : cache[i].key = key
        THEN [i \in DOMAIN cache |-> IF cache[i].key = key THEN entry ELSE cache[i]]
        ELSE IF Len(cache) < limit
             THEN cache \o <<entry>>
             ELSE Tail(cache) \o <<entry>>

\* C14: the general cache never holds more than 50 entries and the public
\* cache never more than 20; a set writes its entry in the place the key
\* already has, or after all others when the key is new, and when that takes
\* the count over the limit it removes the entry inserted earliest and nothing
\* else; the other cache is untouched.
C14_CacheBound ==
    [][/\ Len(dataCache') <= 50
       /\ Len(homepageCache') <= 20
       /\ last'.op = "setCachedData" =>
            /\ dataCache' = SetWithin(dataCache, last'.args.key, last'.args.data, 50)
            /\ homepageCache' = homepageCache
       /\ last'.op = "setHomepageCachedData" =>
            /\ homepageCache' =
                  SetWithin(homepageCache, last'.args.key, last'.args.data, 20)
            /\ dataCache' = dataCache]_vars

\* the 51st key was set into the full general cache: the first key is gone, the
\* second is now the oldest and the new one the newest
C14_Witness ==
    /\ last.op = "setCachedData"
    /\ last.args.key = "key-51"
    /\ Len(dataCache) = 50
    /\ dataCache[50].key = "key-51"
    /\ dataCache[1].key = "key-2"
    /\ dataCache[49].data = "v2"

\* a cache without the entries of the given keys
Without(cache, keys) == SelectSeq(cache, LAMBDA entry : entry.key \notin keys)

BroadcastOps ==
    {"chess/join", "chess/move", "ludo/join", "ludo/start", "ludo/roll",
     "ludo-move", "tictactoe/join", "tictactoe/move", "uno/join",
     "uno/play-card", "uno/draw-card"}

\* the container an event belongs to, as the step leaves it
HolderAfter(event) ==
    CASE event \in {"game-updated", "move-made"} -> chessGames'
      [] event \in {"ludo-game-updated", "ludo-game-started", "ludo-dice-rolled",
                    "ludo-move-made"} -> ludoGames'
      [] event \in {"tictactoe-game-updated", "tictactoe-move-made"} -> ticTacToeGames'
      [] event \in {"uno-game-updated", "uno-card-played", "uno-card-drawn"} -> unoGames'

\* C16: a handler that changes a match and broadcasts does both in one step:
\* the step that changes a container on behalf of such a handler carries exactly
\* one event, to the gaming room, and every event to the gaming room names a
\* match of its container and carries that match as the step leaves it.  The
\* events of a match therefore follow one another in the order of its changes.
C16_BroadcastAfterChange ==
    [][/\ last'.op \in BroadcastOps /\ gameVars' # gameVars =>
            /\ Len(last'.emits) = 1
            /\ last'.emits[1].to = "gaming-room"
       /\ \A i \in DOMAIN last'.emits :
            last'.emits[i].to = "gaming-room" =>
               LET e == last'.emits[i]
               IN  /\ e.payload.gameId = last'.gameId
                   /\ e.payload.gameId \in DOMAIN HolderAfter(e.event)
                   /\ e.payload.game = HolderAfter(e.event)[e.payload.gameId]]_vars

\* a card was played and broadcast: the event carries a match whose discard
\* pile already ends with that card
C16_Witness ==
    /\ last.op = "uno/play-card"
    /\ Len(last.emits) = 1
    /\ last.emits[1].event = "uno-card-played"
    /\ last.emits[1].payload.game = unoGames[last.gameId]
    /\ unoGames[last.gameId].discardPile[Len(unoGames[last.gameId].discardPile)]
          = last.emits[1].payload.card

\* the request/response endpoints of the four variants
HttpOps ==
    {"chess/games", "chess/create", "chess/join", "chess/move",
     "ludo/games", "ludo/create", "ludo/join", "ludo/start", "ludo/roll",
     "tictactoe/games", "tictactoe/create", "tictactoe/join", "tictactoe/move",
     "uno/games", "uno/create", "uno/join", "uno/play-card", "uno/draw-card"}

\* C17: every request/response game endpoint answers 401 to a caller without an
\* authenticated session and 403 to an authenticated caller whose role is not
\* gamer, and in both cases changes no container, timer, cache, room or counter.
C17_GateOnEveryEndpoint ==
    [][last'.op \in HttpOps /\ (last'.actor = Undefined \/ last'.actor \notin Gamers) =>
          /\ last'.code = IF last'.actor = Undefined THEN 401 ELSE 403
          /\ last'.emits = <<>>
          /\ UNCHANGED <<gameVars, timers, cacheVars, rooms, connVars, sessionStore>>]_vars

\* a card play by a viewer on a match that is being played, answered 403
C17_Witness ==
    /\ last.op = "uno/play-card"
    /\ last.actor = "dave"
    /\ last.code = 403
    /\ \E g \in DOMAIN unoGames : unoGames[g].status = "playing"

\* the start and action endpoints
ParticipantOps ==
    {"chess/move", "ludo/start", "ludo/roll", "tictactoe/move", "uno/play-card",
     "uno/draw-card"}

\* the container an endpoint works on, as the step finds it
HolderBefore(op) ==
    CASE op \in {"chess/move"} -> chessGames
      [] op \in {"ludo/start", "ludo/roll"} -> ludoGames
      [] op \in {"tictactoe/move"} -> ticTacToeGames
      [] op \in {"uno/play-card", "uno/draw-card"} -> unoGames

\* the names of the players of a match of the container of op
Participants(op, game) ==
    IF op = "chess/move" THEN Range(game.players)
    ELSE {game.players[i].name : i \in DOMAIN game.players}

\* C18: a start or action request of a gamer on an existing match in which the
\* gamer is no player is answered 403 and changes no match.
C18_NonParticipantDenied ==
    [][/\ last'.op \in ParticipantOps
       /\ last'.actor \in Gamers
       /\ last'.gameId \in DOMAIN HolderBefore(last'.op)
       /\ last'.actor \notin
             Participants(last'.op, HolderBefore(last'.op)[last'.gameId])
       => /\ last'.code = 403
          /\ gameVars' = gameVars]_vars

\* a header that is sid=s: followed by text with no delimiter in it
Delimiterless(cookieHeader) ==
    /\ cookieHeader # NoHeader
    /\ StartsWith(cookieHeader, <<"s", "i", "d", "=", "s", ":">>)
    /\ \A i \in DOMAIN cookieHeader : cookieHeader[i] \notin {".", ";", "%"}

\* C19: a handshake whose sid cookie has the prefix s: but no . after the
\* session id is refused, whatever the store holds under the text after the
\* prefix.
C19_DelimiterRequired ==
    handshake.ran /\ Delimiterless(handshake.cookieHeader)
        => ~handshake.result.admitted

\* C20: after an accepted play of a skip card that does not win the match, the
\* turn is two steps further in the current direction than it was: with two
\* players the one who played is on turn again.
C20_SkipAdvancesTwo ==
    [][/\ last'.op = "uno/play-card"
       /\ last'.code = 200
       /\ ops' = ops + 1
       /\ last'.emits[1].payload.card.value = "skip"
       /\ unoGames'[last'.gameId].status # "finished"
       => LET before == unoGames[last'.gameId]
              after == unoGames'[last'.gameId]
              n == Len(before.players)
          IN  after.currentPlayerIndex =
                 (before.currentPlayerIndex + 2 * before.direction + 2 * n) % n]_vars

\* an accepted card play that leaves the match unfinished
PlayedOn(value) ==
    /\ last'.op = "uno/play-card"
    /\ last'.code = 200
    /\ ops' = ops + 1
    /\ last'.emits[1].payload.card.value \in value
    /\ unoGames'[last'.gameId].status # "finished"

\* where the turn is after a skip card played on the match
TurnAfterSkip(game) ==
    LET done == processUNOCardEffect(game, [type |-> "special", color |-> "yellow",
                                             value |-> "skip"])
    IN  Step(done, done.currentPlayerIndex)

\* C21: a reverse card flips the direction; with more than two players the turn
\* goes one step in the new direction from the player who played it; with two
\* players the turn is where a skip card played on the same match would put it.
C21_Reverse ==
    [][PlayedOn({"reverse"}) =>
          LET before == unoGames[last'.gameId]
              after == unoGames'[last'.gameId]
              n == Len(before.players)
          IN  /\ after.direction = 0 - before.direction
              /\ n > 2 => after.currentPlayerIndex =
                             (before.currentPlayerIndex + after.direction + n) % n
              /\ n = 2 => after.currentPlayerIndex = TurnAfterSkip(before)]_vars

\* how many cards each penalty card deals
Penalty == [draw2 |-> 2, wild4 |-> 4]

\* C22: after an accepted, non-winning play of a draw-two or draw-four card the
\* player next in turn order holds 2 (4) cards more than before, and the turn
\* is on the player after that one in the current direction.
C22_DrawPenalty ==
    [][PlayedOn({"draw2", "wild4"}) =>
          LET before == unoGames[last'.gameId]
              after == unoGames'[last'.gameId]
              n == Len(before.players)
              victim == (before.currentPlayerIndex + before.direction + n) % n
              count == Penalty[last'.emits[1].payload.card.value]
          IN  /\ Len(after.players[victim + 1].hand) =
                    Len(before.players[victim + 1].hand) + count
              /\ after.currentPlayerIndex = (victim + before.direction + n) % n]_vars

\* C23: when a draw-two or draw-four card is played on a deck that holds fewer
\* cards than it deals, the discard pile is turned into the deck and only the
\* card just played stays on it, and the penalised player still gets the full
\* 2 (4) cards if the deck and the discard pile held that many between them.
C23_PenaltyReshuffles ==
    [][PlayedOn({"draw2", "wild4"}) =>
          LET before == unoGames[last'.gameId]
              after == unoGames'[last'.gameId]
              n == Len(before.players)
              victim == (before.currentPlayerIndex + before.direction + n) % n
              count == Penalty[last'.emits[1].payload.card.value]
          IN  Len(before.deck) < count =>
                 /\ after.discardPile = <<last'.emits[1].payload.card>>
                 /\ Len(before.deck) + Len(before.discardPile) >= count =>
                       Len(after.players[victim + 1].hand) =
                          Len(before.players[victim + 1].hand) + count]_vars

\* the index names a card of the hand that is wild or follows the pile
Playable(game, cardIndex) ==
    LET hand == game.players[game.currentPlayerIndex + 1].hand
    IN  /\ cardIndex \in 0..(Len(hand) - 1)
        /\ \/ hand[cardIndex + 1].type = "wild"
           \/ hand[cardIndex + 1].color = game.currentColor
           \/ hand[cardIndex + 1].value = game.currentNumber

\* C24: a card play of the player on turn is accepted exactly when its index
\* names a card of the hand that is wild or matches the current color or the
\* current number; an accepted play takes that card, and no other, out of the
\* hand and puts it on top of the discard pile, sets the current color and
\* number from it (the chosen color for a wild), and finishes the match with
\* that player as winner if the hand is then empty.
C24_CardPlay ==
    [][/\ \A actor \in {"alice", "bob"}, cardIndex \in HandIndexes \cup {-1},
             chosenColor \in {Undefined, "green"} :
             /\ UnoPlayCard(actor, 0, cardIndex, chosenColor)
             /\ 0 \in DOMAIN unoGames
             /\ unoGames[0].players[unoGames[0].currentPlayerIndex + 1].name = actor
             => (last'.code = 200 <=> Playable(unoGames[0], cardIndex))
       /\ last'.op = "uno/play-card" /\ last'.code = 200 /\ ops' = ops + 1 =>
             LET before == unoGames[last'.gameId]
                 after == unoGames'[last'.gameId]
                 k == before.currentPlayerIndex + 1
                 i == last'.args.cardIndex + 1
                 hand == before.players[k].hand
                 card == hand[i]
             IN  /\ after.players[k].hand =
                       SubSeq(hand, 1, i - 1) \o SubSeq(hand, i + 1, Len(hand))
                 /\ after.discardPile = before.discardPile \o <<card>>
                 /\ after.currentNumber = card.value
                 /\ card.type # "wild" => after.currentColor = card.color
                 /\ card.type = "wild" /\ last'.args.chosenColor # Undefined =>
                       after.currentColor = last'.args.chosenColor
                 /\ Len(hand) = 1 => /\ after.status = "finished"
                                     /\ after.winner = before.players[k].name]_vars

\* bob played his last card and won
C24_Witness ==
    /\ last.op = "uno/play-card"
    /\ last.code = 200
    /\ unoGames[0].status = "finished"
    /\ unoGames[0].winner = "bob"
    /\ unoGames[0].players[2].hand = <<>>
    /\ unoGames[0].discardPile[Len(unoGames[0].discardPile)]
          = last.emits[1].payload.card

\* C25: an accepted draw in a match that is being played gives the player on
\* turn exactly one card, taken from the deck, and moves the turn one step in
\* the current direction; if the deck was empty the discard pile, all but its
\* top card, has become the deck first.  A draw that can deal no card is
\* therefore never answered as a success.
C25_CardDraw ==
    [][/\ last'.op = "uno/draw-card"
       /\ last'.code = 200
       /\ ops' = ops + 1
       /\ unoGames[last'.gameId].status = "playing"
       => LET before == unoGames[last'.gameId]
              after == unoGames'[last'.gameId]
              n == Len(before.players)
              k == before.currentPlayerIndex + 1
          IN  /\ Len(after.players[k].hand) = Len(before.players[k].hand) + 1
              /\ after.currentPlayerIndex =
                    (before.currentPlayerIndex + before.direction + n) % n
              /\ Len(before.deck) > 0 =>
                    /\ after.players[k].hand =
                          before.players[k].hand \o <<before.deck[Len(before.deck)]>>
                    /\ after.deck = SubSeq(before.deck, 1, Len(before.deck) - 1)
                    /\ after.discardPile = before.discardPile
              /\ Len(before.deck) = 0 =>
                    /\ after.discardPile =
                          <<before.discardPile[Len(before.discardPile)]>>
                    /\ Len(after.deck) = Len(before.discardPile) - 2]_vars

\* the turn of the first race match rests on the computer player at index i
TurnRestsOnComputer(i) ==
    /\ 0 \in DOMAIN ludoGames
    /\ ludoGames[0].status = "playing"
    /\ ludoGames[0].currentPlayerIndex = i
    /\ i < Len(ludoGames[0].players)
    /\ ludoGames[0].players[i + 1].isComputer

\* C26: whenever the turn of a race match rests on a computer player the turn
\* eventually leaves that player, the timeouts and the interval running and
\* nobody rolling or moving under the computer player's name.
C26_ComputerTurnAdvances ==
    \A i \in 0..7 : TurnRestsOnComputer(i) ~> ~TurnRestsOnComputer(i)

\* C27: an accepted race move whose roll is not 6 leaves the turn pointer at
\* (previous index + 1) mod player count, one whose roll is 6 leaves it where
\* it was; either way the dice are not rolled and the last roll is cleared.
C27_TurnOrder ==
    [][last'.op = "ludo-move" /\ last'.emits # <<>> /\ ops' = ops + 1 =>
          LET before == ludoGames[last'.gameId]
              after == ludoGames'[last'.gameId]
          IN  /\ last'.args.diceRoll # 6 =>
                    after.currentPlayerIndex =
                        (before.currentPlayerIndex + 1) % Len(before.players)
              /\ last'.args.diceRoll = 6 =>
                    after.currentPlayerIndex = before.currentPlayerIndex
              /\ after.diceRolled = FALSE
              /\ after.lastDiceRoll = NullRoll]_vars

\* the second of two players has moved with a roll that is not 6 after a roll
\* was recorded, and the turn is back at the first
C27_Witness ==
    /\ last.op = "ludo-move"
    /\ last.emits # <<>>
    /\ last.actor = "bob"
    /\ last.args.diceRoll = 1
    /\ last.gameId \in DOMAIN ludoGames
    /\ Len(ludoGames[last.gameId].players) = 2
    /\ ludoGames[last.gameId].players[2].name = "bob"
    /\ ludoGames[last.gameId].currentPlayerIndex = 0
    /\ ludoGames[last.gameId].diceRolled = FALSE

JoinOps == {"chess/join", "ludo/join", "tictactoe/join", "uno/join"}

\* the container a join request writes to
JoinedContainer(op, chess, ludo, tictactoe, uno) ==
    CASE op = "chess/join" -> chess
      [] op = "ludo/join" -> ludo
      [] op = "tictactoe/join" -> tictactoe
      [] op = "uno/join" -> uno

\* the names of the players of a match, in order of their seats
SeatedNames(op, game) ==
    IF op = "chess/join" THEN game.players
    ELSE [i \in DOMAIN game.players |-> game.players[i].name]

\* the number of players the match takes
Seats(op, game) ==
    IF op \in {"chess/join", "tictactoe/join"} THEN 2 ELSE game.maxPlayers

\* a join request changes a match only if the match exists, has a free seat
\* and has no player of the actor's name, and then seats the actor last; the
\* second seat starts a chess, grid or card match and no seat starts a race
JoinSeatsTheActor ==
    last'.op \in JoinOps =>
        LET op == last'.op
            g == last'.gameId
            before == JoinedContainer(op, chessGames, ludoGames,
                                      ticTacToeGames, unoGames)
            after == JoinedContainer(op, chessGames', ludoGames',
                                     ticTacToeGames', unoGames')
            admitted ==
                /\ g \in DOMAIN before
                /\ Len(before[g].players) < Seats(op, before[g])
                /\ \A i \in DOMAIN before[g].players :
                        SeatedNames(op, before[g])[i] # last'.actor
        IN  /\ ~admitted => UNCHANGED gameVars
            /\ admitted /\ last'.actor \in Gamers =>
                  /\ last'.code = 200
                  /\ DOMAIN after = DOMAIN before
                  /\ \A h \in DOMAIN before : h # g => after[h] = before[h]
                  /\ SeatedNames(op, after[g]) =
                        Append(SeatedNames(op, before[g]), last'.actor)
                  /\ IF op = "ludo/join"
                     THEN after[g].status = before[g].status
                     ELSE after[g].status = "playing"

\* the matches of a container that are being played after the step and were
\* not before have two players or more
StartedWithTwo(before, after) ==
    \A g \in DOMAIN after :
        /\ after[g].status = "playing"
        /\ g \in DOMAIN before => before[g].status # "playing"
        => Len(after[g].players) >= 2

\* C28: a join seats the actor only in an existing match with a free seat that
\* the actor is no player of, and otherwise changes nothing; a match of any
\* variant becomes playing only with two players or more.
C28_Join ==
    [][/\ JoinSeatsTheActor
       /\ StartedWithTwo(chessGames, chessGames')
       /\ StartedWithTwo(ludoGames, ludoGames')
       /\ StartedWithTwo(ticTacToeGames, ticTacToeGames')
       /\ StartedWithTwo(unoGames, unoGames')]_vars

\* a square of the 8 x 8 board: a file a..h and a row digit 0..7
OnBoard(square) ==
    /\ square[1] \in {"a", "b", "c", "d", "e", "f", "g", "h"}
    /\ square[2] \in {"0", "1", "2", "3", "4", "5", "6", "7"}

\* what the board holds on a square: row digit d is line 8 - d of the board
\* as it is written, file a its first column
PieceOn(board, square) ==
    board[8 - (CHOOSE d \in 0..7 : ToString(d) = square[2])]
         [CHOOSE f \in 1..8 : FileLetters[f] = square[1]]

ColorOf(game, actor) ==
    IF game.players[1] = actor THEN "white" ELSE "black"

\* the move is one the claim accepts
ChessLegal(actor, from, to) ==
    /\ actor \in Gamers
    /\ 0 \in DOMAIN chessGames
    /\ \E i \in DOMAIN chessGames[0].players : chessGames[0].players[i] = actor
    /\ chessGames[0].turn = ColorOf(chessGames[0], actor)
    /\ OnBoard(from) /\ OnBoard(to)
    /\ PieceOn(chessGames[0].board, from) # Null
    /\ (PieceOn(chessGames[0].board, from) \in {"R", "N", "B", "Q", "K", "P"})
            <=> ColorOf(chessGames[0], actor) = "white"

\* C29: a chess move is accepted iff the match exists, the actor is a player on
\* turn, both squares are on the board and the origin holds a piece of the
\* actor's color; an accepted move puts that piece on the target square, empties
\* the origin, appends one entry to the log and flips the turn; a rejected move
\* changes no match; no move changes the status.
C29_ChessMove ==
    [][/\ \A actor \in {"alice", "bob", "carol", "dave"}, from \in Squares,
             to \in ChessTargets :
                ChessMove(actor, 0, from, to) =>
                    (last'.code = 200 <=> ChessLegal(actor, from, to))
       /\ last'.op = "chess/move" /\ last'.code # 200 => chessGames' = chessGames
       /\ last'.op = "chess/move" /\ last'.code = 200 /\ ops' = ops + 1 =>
            LET before == chessGames[last'.gameId]
                after == chessGames'[last'.gameId]
                from == last'.args.from
                to == last'.args.to
            IN  /\ PieceOn(after.board, to) = PieceOn(before.board, from)
                /\ from # to => PieceOn(after.board, from) = Null
                /\ \A r \in 1..8, f \in 1..8 :
                        LET square == <<FileLetters[f], ToString(8 - r)>>
                        IN  square \notin {from, to} =>
                                after.board[r][f] = before.board[r][f]
                /\ Len(after.moves) = Len(before.moves) + 1
                /\ after.moves[Len(after.moves)].from = from
                /\ after.moves[Len(after.moves)].to = to
                /\ after.turn # before.turn
                /\ after.turn \in {"white", "black"}
                /\ after.status = before.status]_vars

\* the cleanup interval kept the match g of the container, as it was, unless
\* the match was abandoned and created more than five minutes before, and then
\* deleted it
SweptByTheRule(before, after) ==
    \A g \in DOMAIN before :
        IF before[g].status = "abandoned" /\ now - before[g].createdAt > 300000
        THEN g \notin DOMAIN after
        ELSE g \in DOMAIN after /\ after[g] = before[g]

NextRollTimer ==
    timers[CHOOSE i \in DOMAIN timers : timers[i].kind = "ludoAuto" /\ Due(i)]

\* C31: the callback a race roll schedules changes the match only if, when it
\* runs, the player who rolled is the current player and the roll it was
\* scheduled for is the pending one.
C31_RollTimer ==
    [][/\ last'.op = "timeout"
       /\ last' # last
       /\ last'.args.kind = "ludoAuto"
       /\ ludoGames' # ludoGames
       => LET t == NextRollTimer
              before == ludoGames[t.gameId]
          IN  /\ before.currentPlayerIndex = t.roller
              /\ before.diceRolled
              /\ before.lastDiceRoll = t.diceRoll]_vars

\* C32: a race move is applied only while a roll of the current player is
\* pending, and the piece moves by that roll, a face of the die, whatever the
\* message says.
C32_MoveUsesTheRoll ==
    [][last'.op = "ludo-move" /\ last'.emits # <<>> /\ ops' = ops + 1 =>
          LET before == ludoGames[last'.gameId]
              after == ludoGames'[last'.gameId]
              k == before.currentPlayerIndex + 1
              piece == before.players[k].pieces[last'.args.pieceIndex + 1]
          IN  /\ before.diceRolled
              /\ before.lastDiceRoll \in Die
              /\ after.players[k].pieces[last'.args.pieceIndex + 1] =
                    MovedPiece(piece, before.lastDiceRoll)]_vars

ActionOps ==
    {"chess/move", "ludo/roll", "tictactoe/move", "uno/play-card", "uno/draw-card"}

\* C33: a chess move, race roll, grid move, card play or card draw on a match
\* that is not being played is rejected and changes no match.
C33_ActionNeedsPlaying ==
    [][/\ last'.op \in ActionOps
       /\ last' # last
       /\ last'.gameId \in DOMAIN HolderBefore(last'.op)
       /\ HolderBefore(last'.op)[last'.gameId].status # "playing"
       => /\ last'.code # 200
          /\ UNCHANGED gameVars]_vars

\* C34: an accepted join to a card match that is being played leaves the hands
\* of its players, the deck, the discard pile, the current color and number,
\* the direction and the turn pointer as they were.
C34_JoinDealsNothing ==
    [][/\ last'.op = "uno/join"
       /\ last'.code = 200
       /\ ops' = ops + 1
       /\ unoGames[last'.gameId].status = "playing"
       => LET before == unoGames[last'.gameId]
              after == unoGames'[last'.gameId]
          IN  /\ \A i \in DOMAIN before.players :
                    after.players[i].hand = before.players[i].hand
              /\ after.deck = before.deck
              /\ after.discardPile = before.discardPile
              /\ after.currentColor = before.currentColor
              /\ after.currentNumber = before.currentNumber
              /\ after.direction = before.direction
              /\ after.currentPlayerIndex = before.currentPlayerIndex]_vars

\* C35: no race match and no card match has more players than its maxPlayers.
C35_SeatsBound ==
    /\ \A g \in DOMAIN ludoGames :
            Len(ludoGames[g].players) <= ludoGames[g].maxPlayers
    /\ \A g \in DOMAIN unoGames :
            Len(unoGames[g].players) <= unoGames[g].maxPlayers

CreateOps == {"chess/create", "ludo/create", "tictactoe/create", "uno/create"}

\* the container a create request writes to
CreatedIn(op, chess, ludo, tictactoe, uno) ==
    CASE op = "chess/create" -> chess
      [] op = "ludo/create" -> ludo
      [] op = "tictactoe/create" -> tictactoe
      [] op = "uno/create" -> uno

\* C36: an accepted create puts a match under an id no match of the container
\* has, and every match that was in the container is there afterwards as it
\* was, also when the clock has not moved since the create before.
C36_CreateReplacesNothing ==
    [][last'.op \in CreateOps /\ last'.code = 200 /\ ops' = ops + 1 =>
          LET before == CreatedIn(last'.op, chessGames, ludoGames,
                                  ticTacToeGames, unoGames)
              after == CreatedIn(last'.op, chessGames', ludoGames',
                                 ticTacToeGames', unoGames')
          IN  /\ last'.gameId \notin DOMAIN before
              /\ last'.gameId \in DOMAIN after
              /\ \A g \in DOMAIN before :
                    g \in DOMAIN after /\ after[g] = before[g]]_vars

RECURSIVE OpenAmong(_)
\* the number of connections of the given sockets that were admitted and have
\* not disconnected
OpenAmong(sockets) ==
    IF sockets = {} THEN 0
    ELSE LET socket == CHOOSE x \in sockets : TRUE
         IN  conns[socket] + OpenAmong(sockets \ {socket})

\* C37: after every connection and disconnect handler the global counter is
\* the sum of the two classification counters and the number of admitted
\* connections that have not disconnected, and no counter is negative.
C37_Counters ==
    /\ activeConnections = homepageConnections + authenticatedConnections
    /\ activeConnections = OpenAmong(DOMAIN conns)
    /\ activeConnections >= 0
    /\ homepageConnections >= 0
    /\ authenticatedConnections >= 0

\* a homepage connection was closed while connections of both kinds were open
C37_Witness ==
    /\ last.op = "disconnect"
    /\ last.args.homepage
    /\ last.args.before.homepage = 2
    /\ homepageConnections = 1
    /\ authenticatedConnections = 2
    /\ activeConnections = 3

\* C38: in every race match and every card match the turn pointer is one of
\* 0 .. player count - 1, and a card match's direction is 1 or -1.
C38_TurnPointer ==
    /\ \A g \in DOMAIN ludoGames :
            ludoGames[g].currentPlayerIndex \in 0..(Len(ludoGames[g].players) - 1)
    /\ \A g \in DOMAIN unoGames :
            /\ unoGames[g].currentPlayerIndex \in 0..(Len(unoGames[g].players) - 1)
            /\ unoGames[g].direction \in {1, -1}

\* three players, the direction reversed, and a card just played by the first
\* player has taken the turn around the end of the table to the last
C38_Witness ==
    /\ last.op = "uno/play-card"
    /\ last.code = 200
    /\ last.actor = "alice"
    /\ 0 \in DOMAIN unoGames
    /\ Len(unoGames[0].players) = 3
    /\ unoGames[0].direction = -1
    /\ unoGames[0].currentPlayerIndex = 2

\* two players of a race match, and a move has taken the turn from the last
\* back to the first
C38_RaceWraps ==
    /\ last.op = "ludo-move"
    /\ last.emits # <<>>
    /\ last.gameId \in DOMAIN ludoGames
    /\ Len(ludoGames[last.gameId].players) = 2
    /\ ludoGames[last.gameId].players[2].name = last.actor
    /\ ludoGames[last.gameId].currentPlayerIndex = 0

\* C39: a piece is listed by getValidMoves for a roll of the die exactly when
\* the move handler changes that piece's position with that roll; and the
\* callback of a roll passes the turn of a human player on only if the handler
\* would change none of that player's pieces with the roll.
C39_ValidMovesAgree ==
    [][/\ /\ last'.op = "ludo-move"
          /\ last'.emits # <<>>
          /\ ops' = ops + 1
          /\ last'.args.diceRoll \in Die
          => LET before == ludoGames[last'.gameId]
                 after == ludoGames'[last'.gameId]
                 k == before.currentPlayerIndex + 1
                 pieceIndex == last'.args.pieceIndex
             IN  pieceIndex \in getValidMoves(before, before.currentPlayerIndex,
                                              last'.args.diceRoll)
                    <=> after.players[k].pieces[pieceIndex + 1].position
                            # before.players[k].pieces[pieceIndex + 1].position
       /\ /\ last'.op = "timeout"
          /\ last' # last
          /\ last'.args.kind = "ludoAuto"
          /\ ludoGames' # ludoGames
          => LET t == NextRollTimer
                 before == ludoGames[t.gameId]
                 player == before.players[before.currentPlayerIndex + 1]
             IN  ~before.players[t.roller + 1].isComputer =>
                    \A i \in 1..4 :
                        MovedPiece(player.pieces[i], t.diceRoll).position
                            = player.pieces[i].position]_vars

-----------------------------------------------------------------------------
(* Claims about the games                                                   *)

AllowedStatusChange(s, t) ==
    \/ s = t
    \/ s = "waiting" /\ t \in {"playing", "abandoned"}
    \/ s = "playing" /\ t \in {"finished", "draw", "abandoned"}

\* every match that is in its container before and after a step that is not
\* a create changes status along the graph
StatusFollowsGraph(before, after) ==
    \A g \in DOMAIN before \cap DOMAIN after :
        AllowedStatusChange(before[g].status, after[g].status)

\* C2: each change of a match's status follows waiting -> playing ->
\* {finished, draw, abandoned}, abandoned also from waiting; nothing leaves
\* finished or draw, and playing never returns to waiting.
C2_StatusGraph ==
    [][last'.op \notin CreateOps =>
          /\ StatusFollowsGraph(chessGames, chessGames')
          /\ StatusFollowsGraph(ludoGames, ludoGames')
          /\ StatusFollowsGraph(ticTacToeGames, ticTacToeGames')
          /\ StatusFollowsGraph(unoGames, unoGames')]_vars

HttpActionOps == {"chess/move", "ludo/roll", "tictactoe/move", "uno/play-card",
                  "uno/draw-card"}

\* a step in which an action endpoint answered with an error status
HttpRejectedStep ==
    /\ last' # last
    /\ last'.op \in HttpActionOps
    /\ last'.code \in {400, 401, 403, 404}

\* a step in which a ludo-move message named no match, or came from someone
\* whose turn it is not
LudoMoveRefusedStep ==
    /\ last' # last
    /\ last'.op = "ludo-move"
    /\ \/ last'.gameId \notin DOMAIN ludoGames
       \/ LET game == ludoGames[last'.gameId]
          IN  game.players[game.currentPlayerIndex + 1].name # last'.actor

\* a step in which a ludo-move message of the current player of a match
\* being played named a piece at home with a roll that is not 6
LudoHomeMoveStep ==
    /\ last'.op = "ludo-move"
    /\ ops' = ops + 1
    /\ last'.gameId \in DOMAIN ludoGames
    /\ LET game == ludoGames[last'.gameId]
           player == game.players[game.currentPlayerIndex + 1]
       IN  /\ player.pieces[last'.args.pieceIndex + 1].position = Home
           /\ last'.args.diceRoll # 6

RejectedStep == HttpRejectedStep \/ LudoMoveRefusedStep \/ LudoHomeMoveStep

\* a step in which an action endpoint answered 200, or a ludo-move message
\* passed the handler's checks, and the action is none of the rejected ones
AcceptedStep ==
    /\ ~RejectedStep
    /\ \/ /\ last'.op \in HttpActionOps
          /\ last'.code = 200
          /\ ops' = ops + 1
       \/ /\ last'.op = "ludo-move"
          /\ ops' = ops + 1

\* C3: a rejected game action leaves every match as it was.
C3_RejectedChangesNothing ==
    [][RejectedStep => UNCHANGED gameVars]_vars

\* C4: an accepted game action emits exactly one event, to the gaming room;
\* a rejected one emits nothing.
C4_OneEventPerAcceptedAction ==
    [][/\ RejectedStep => last'.emits = <<>>
       /\ AcceptedStep => /\ Len(last'.emits) = 1
                          /\ last'.emits[1].to = "gaming-room"]_vars

IsPlayer(game, name) ==
    \E i \in DOMAIN game.players : game.players[i].name = name

\* C5: after the disconnect handler of a connection that is not a homepage
\* connection, every match with that connection's user among its players is
\* abandoned.
C5_DisconnectAbandons ==
    (last.op = "disconnect" /\ ~last.args.homepage) =>
        /\ \A g \in DOMAIN chessGames :
              last.actor \in Range(chessGames[g].players)
                  => chessGames[g].status = "abandoned"
        /\ \A g \in DOMAIN ludoGames :
              IsPlayer(ludoGames[g], last.actor) => ludoGames[g].status = "abandoned"
        /\ \A g \in DOMAIN ticTacToeGames :
              IsPlayer(ticTacToeGames[g], last.actor)
                  => ticTacToeGames[g].status = "abandoned"
        /\ \A g \in DOMAIN unoGames :
              IsPlayer(unoGames[g], last.actor) => unoGames[g].status = "abandoned"

\* C6: once a player's connection has disconnected during a ludo match, the
\* match leaves the container unless the player connects again.
C6_DisconnectedMatchRemoved ==
    \A g \in GameIds, socket \in SoloSockets :
        (/\ last.op = "disconnect"
         /\ last.actor = socket.username
         /\ g \in DOMAIN ludoGames
         /\ ludoGames[g].status = "playing"
         /\ IsPlayer(ludoGames[g], socket.username))
        ~> (g \notin DOMAIN ludoGames \/ conns[socket] > 0)

\* the step took the piece from position from to position to as the rules of
\* movement allow
MovedByTheRules(from, to) ==
    /\ last'.op = "ludo-move"
    /\ IF from = Home
       THEN last'.args.diceRoll = 6 /\ to = 0
       ELSE to = Min(from + last'.args.diceRoll, 56)

\* C11: a ludo piece at home changes position only in a move whose roll is 6,
\* and then goes to 0; a piece on the track advances by the roll, capped at
\* 56; no piece is ever beyond 56.
C11_PieceMovement ==
    [][/\ \A g \in DOMAIN ludoGames' :
            \A i \in DOMAIN ludoGames'[g].players :
                \A k \in 1..4 : ludoGames'[g].players[i].pieces[k].position <= 56
       /\ last'.op # "ludo/create" =>
            \A g \in DOMAIN ludoGames \cap DOMAIN ludoGames' :
                \A i \in DOMAIN ludoGames[g].players :
                    \A k \in 1..4 :
                        LET from == ludoGames[g].players[i].pieces[k].position
                            to == ludoGames'[g].players[i].pieces[k].position
                        IN  from # to => MovedByTheRules(from, to)]_vars

\* a piece that had left home was moved with a roll of 56 and stands at 56
C11_Witness ==
    /\ last.op = "ludo-move"
    /\ last.emits # <<>>
    /\ last.args.diceRoll = 56
    /\ \E g \in DOMAIN ludoGames :
          /\ ludoGames[g].players[1].pieces[1].position = 56
          /\ ludoGames[g].players[1].piecesInGoal = 1

\* the eight lines of the board: three rows, three columns, two diagonals
Lines ==
    {{3 * r + c : c \in 0..2} : r \in 0..2}
        \cup {{3 * r + c : r \in 0..2} : c \in 0..2}
        \cup {{0, 4, 8}, {2, 4, 6}}

HoldsLine(board, symbol) ==
    \E line \in Lines : \A cell \in line : board[cell + 1] = symbol

Full(board) == \A cell \in DOMAIN board : board[cell] # ""

\* C12: after an accepted tic-tac-toe move the match is finished with winner
\* S exactly when a line holds three S, a draw exactly when the board is full
\* and no line is held, and otherwise has the status it had; the board with X
\* at 0, 1, 2 and O at 4, 5 is finished with winner X.
C12_GridOutcome ==
    [][(last'.op = "tictactoe/move" /\ last'.code = 200 /\ ops' = ops + 1) =>
          LET before == ticTacToeGames[last'.gameId]
              after == ticTacToeGames'[last'.gameId]
              held == HoldsLine(after.board, "X") \/ HoldsLine(after.board, "O")
          IN  /\ \A symbol \in {"X", "O"} :
                    (after.status = "finished" /\ after.winner = symbol)
                        <=> HoldsLine(after.board, symbol)
              /\ after.status = "draw" <=> (Full(after.board) /\ ~held)
              /\ (~held /\ ~Full(after.board)) => after.status = before.status
              /\ after.board = <<"X", "X", "X", "", "O", "O", "", "", "">> =>
                    after.status = "finished" /\ after.winner = "X"]_vars

\* alice and bob have played X, O, X, O, X at 0, 4, 1, 5, 2
C12_Witness ==
    /\ last.op = "tictactoe/move"
    /\ last.code = 200
    /\ last.args = [position |-> 2]
    /\ 0 \in DOMAIN ticTacToeGames
    /\ ticTacToeGames[0].board = <<"X", "X", "X", "", "O", "O", "", "", "">>
    /\ ticTacToeGames[0].status = "finished"
    /\ ticTacToeGames[0].winner = "X"
    /\ Len(ticTacToeGames[0].players) = 2

\* the matches a step removed from a container were abandoned before it
RemovedWereAbandoned(before, after) ==
    \A g \in DOMAIN before \ DOMAIN after : before[g].status = "abandoned"

Sum(f) ==
    LET RECURSIVE SumTo(_)
        SumTo(n) == IF n = 0 THEN 0 ELSE f[n] + SumTo(n - 1)
    IN  SumTo(Len(f))

CardsIn(game) ==
    Len(game.deck) + Len(game.discardPile)
        + Sum([k \in DOMAIN game.players |-> Len(game.players[k].hand)])

\* C9: in every uno match that has been dealt, the deck, the discard pile and
\* the hands hold 108 cards between them.
C9_CardConservation ==
    \A g \in DOMAIN unoGames :
        unoGames[g].discardPile # <<>> => CardsIn(unoGames[g]) = 108

PiecesAtGoal(player) ==
    Cardinality({i \in DOMAIN player.pieces : player.pieces[i].position = Goal})

\* C10: every ludo player's piecesInGoal is the number of that player's pieces
\* at 56, and a match is finished with a winner only when four of the
\* winner's pieces are at 56.
C10_GoalAccounting ==
    \A g \in DOMAIN ludoGames :
        LET game == ludoGames[g]
        IN  /\ \A i \in DOMAIN game.players :
                  game.players[i].piecesInGoal = PiecesAtGoal(game.players[i])
            /\ (game.status = "finished" /\ game.winner # Undefined) =>
                  \E i \in DOMAIN game.players :
                      /\ game.players[i].name = game.winner
                      /\ PiecesAtGoal(game.players[i]) = 4

=============================================================================
